---- MODULE Spec2Model ----
(***************************************************************************)
(* A model of osgEarth's HTTP tile fetching stack: the transport backends  *)
(* (CURLImplementation, WinInetImplementation), the read-through cache of  *)
(* HTTPClient::doGet, the typed reads built on it and the per-key gate of  *)
(* the tile pipeline.                                                      *)
(*                                                                         *)
(* Strings the code searches (the cache-control header) are sequences of   *)
(* characters, so that std::string::find is a real sub-string search.      *)
(***************************************************************************)
EXTENDS Integers, Sequences, FiniteSets, TLC

VARIABLES
    build,      \* the build and process set-up: backend the factory creates, copy
                \* elision, OSGEARTH_HTTP_DISABLE in the environment
    initialized,        \* HTTPClient::_initialized of the thread's client
    s_simResponseCode,  \* the simulated response code, -1 when off
    now,        \* the wall clock (seconds) DateTime() reads
    bin,        \* the default cache bin: cache key -> stored entry
    call,       \* the last call made on the HTTPClient and what it did
    tcall,      \* the last GET made directly on a transport backend
    held,       \* keygate: the Tile Keys currently locked
    pc,         \* keygate: position of every pipeline thread
    tkey,       \* keygate: the Tile Key each thread asked for
    tres,       \* keygate: the response each thread got
    tpending,   \* keygate: the look-up a thread made before it went to the transport
    ncalls,     \* keygate: transport calls made so far, per Tile Key
    responded,  \* keygate: the Tile Keys for which a transport response has arrived
    late,       \* keygate: the Tile Keys a thread asked for after such a response
    req,        \* an HTTPRequest, the calls made on it and the URL it rendered
    config,     \* a Config, the last set made on it and what the last get gave
    probe,      \* the last call of a function of HTTPResponse or of the multipart decoder
    handle,     \* a transport backend of its own: its curl handle and the GETs made on it
    glob,       \* the process-global settings and the threads that access them
    gpu         \* a GPUJobArena, the jobs dispatched to it and their futures

vars == <<build, initialized, s_simResponseCode, now, bin, call, tcall, held, pc, tkey, tres, tpending, ncalls, responded, late, req, config, probe, handle, glob, gpu>>

clientVars == <<now, bin, call>>
procVars   == <<initialized, s_simResponseCode>>
gateVars   == <<held, pc, tkey, tres, tpending, ncalls, responded, late>>
moreVars   == <<probe, handle, glob, gpu>>
dataVars   == <<req, config, moreVars>>

----------------------------------------------------------------------------
(* Bounds *)

MaxTime    == 2     \* the clock stops here
NumThreads == 2     \* pipeline threads of the keygate scenario
MaxParams  == 2     \* addParameter calls made on one HTTPRequest
MaxChildren == 2    \* children of the Config

----------------------------------------------------------------------------
(* Strings *)

\* "no-cache"
StrNoCache == <<"n", "o", "-", "c", "a", "c", "h", "e">>
\* "private, no-cache"  (a value that merely contains the directive)
StrPrivateNoCache == <<"p", ",", " ">> \o StrNoCache
\* "max-age=9"
StrMaxAge == <<"m", "a", "x", "-", "a", "g", "e", "=", "9">>
\* "no-store"
StrNoStore == <<"n", "o", "-", "s", "t", "o", "r", "e">>

\* as Find, but the needle is only looked for at the start of the string
Find_AtStartOnly(hay, needle) ==
    Len(hay) >= Len(needle) /\ SubSeq(hay, 1, Len(needle)) = needle

\* std::string::find(needle) != npos
Find(hay, needle) ==
    \E i \in 1..(Len(hay) - Len(needle) + 1) :
        SubSeq(hay, i, i + Len(needle) - 1) = needle

----------------------------------------------------------------------------
(* HTTPResponse *)

\* headers of a part / metadata Config of a cache entry; an absent header
\* has the empty value, which is what Config::value returns for it
NoHeaders == [cacheControl |-> <<>>, contentType |-> ""]

Part(headers, stream) == [headers |-> headers, stream |-> stream]

\* HTTPResponse::HTTPResponse(long code)
HTTPResponse(code) ==
    [code |-> code, canceled |-> FALSE, duration |-> 0, lastModified |-> 0,
     fromCache |-> FALSE, parts |-> <<>>, mimeType |-> "", message |-> ""]

\* HTTPResponse::HTTPResponse(const HTTPResponse& rhs)
CopyHTTPResponse(rhs) ==
    [code |-> rhs.code, canceled |-> rhs.canceled, duration |-> 0,
     lastModified |-> 0, fromCache |-> rhs.fromCache, parts |-> rhs.parts,
     mimeType |-> rhs.mimeType, message |-> ""]

\* `return response;` of a named local: the build either elides the copy or
\* runs the copy constructor
ReturnLocal(nrvo, response) ==
    IF nrvo THEN response ELSE CopyHTTPResponse(response)

\* HTTPResponse::isOK
isOK(r) == r.code = 200 /\ ~r.canceled

\* HTTPResponse::getPartAsString(0)
getPartAsString0(r) == IF 0 < Len(r.parts) THEN r.parts[1].stream ELSE ""

\* HTTPResponse::getHeadersAsConfig
getHeadersAsConfig(r) == IF Len(r.parts) > 0 THEN r.parts[1].headers ELSE NoHeaders

\* HTTPResponse::setHeadersFromConfig
setHeadersFromConfig(r, conf) ==
    IF Len(r.parts) > 0
    THEN [r EXCEPT !.parts[1].headers = conf]
    ELSE r

----------------------------------------------------------------------------
(* What the network does during one GET *)

Events == {"none", "cancel", "timeout", "neterr", "partial"}

\* event:  "cancel"  - the progress callback returns true when it is polled
\*         "timeout" - the transfer or connect timer of the handle fires
\*         "neterr"  - the connection cannot be established
\*         "partial" - the connection breaks after the status line and headers
\* status: the status code the server sends
\* proxy:  a proxy address was resolved for the request (proxy_addr not empty)
\* connectInfoOK: curl_easy_getinfo(CURLINFO_HTTP_CONNECTCODE) succeeds
\* hashZero: hash(tick) % 10 == 0 for this request
Env(event, status, body, cc, ct, filetime, proxy, connectInfoOK, hashZero) ==
    [event |-> event, status |-> status, body |-> body,
     headers |-> [cacheControl |-> cc, contentType |-> ct],
     filetime |-> filetime, proxy |-> proxy, connectInfoOK |-> connectInfoOK,
     hashZero |-> hashZero]

\* res = curl_easy_perform(_curl_handle): libcurl aborts with
\* CURLE_ABORTED_BY_CALLBACK when the progress function returns non-zero; the
\* progress function is CurlProgressCallback, which reports no cancellation
\* without a callback
curl_easy_perform(env, progress) ==
    CASE env.event = "cancel" /\ progress -> "CURLE_ABORTED_BY_CALLBACK"
      [] env.event = "timeout"            -> "CURLE_OPERATION_TIMEDOUT"
      [] env.event = "neterr"             -> "CURLE_COULDNT_CONNECT"
      [] env.event = "partial"            -> "CURLE_PARTIAL_FILE"
      [] OTHER                            -> "CURLE_OK"

\* curl_easy_strerror: never empty
curl_easy_strerror(res) ==
    CASE res = "CURLE_ABORTED_BY_CALLBACK" -> "Operation was aborted by an application callback"
      [] res = "CURLE_OPERATION_TIMEDOUT"  -> "Timeout was reached"
      [] res = "CURLE_COULDNT_CONNECT"     -> "Couldn't connect to server"
      [] res = "CURLE_PARTIAL_FILE"        -> "Transferred a partial file"
      [] OTHER                             -> "No error"

\* CURLINFO_RESPONSE_CODE: the last status code received, 0 when none was
curl_response_code(env, res) ==
    IF res = "CURLE_COULDNT_CONNECT" THEN 0 ELSE env.status

\* CURLImplementation::doGet
CURLdoGet(env, progress, simCode, nrvo) ==
    LET res == curl_easy_perform(env, progress) IN
    IF res = "CURLE_ABORTED_BY_CALLBACK" \/ res = "CURLE_OPERATION_TIMEDOUT"
    THEN ReturnLocal(nrvo, [HTTPResponse(0) EXCEPT !.canceled = TRUE,
                                                   !.message = curl_easy_strerror(res)])
    ELSE IF env.proxy /\ ~env.connectInfoOK
    THEN ReturnLocal(nrvo, [HTTPResponse(0) EXCEPT !.message = "Proxy connect error   Unknown option"])
    ELSE
      LET response_code ==
              IF simCode > 0 /\ env.hashZero THEN simCode
              ELSE curl_response_code(env, res)
          r0 == [HTTPResponse(response_code) EXCEPT
                    !.mimeType = env.headers.contentType,
                    !.lastModified = env.filetime]
          r1 == IF res = "CURLE_OK"
                THEN [r0 EXCEPT !.parts = <<Part(env.headers, env.body)>>]
                ELSE [r0 EXCEPT !.message = curl_easy_strerror(res)]
          r2 == [r1 EXCEPT !.duration = 1]
      IN ReturnLocal(nrvo, r2)

\* WinInetImplementation::doGet: the progress callback is never polled and
\* no timeout is set on the request (setTimeout is empty)
WinInetdoGet(env, nrvo) ==
    IF env.event = "neterr"
    THEN HTTPResponse(0)
    ELSE
      LET r0 == [HTTPResponse(env.status) EXCEPT
                    !.mimeType = env.headers.contentType,
                    !.lastModified = env.filetime]
          r1 == IF env.status = 200
                THEN [r0 EXCEPT !.parts = <<Part(NoHeaders, env.body)>>]
                ELSE r0
          r2 == [r1 EXCEPT !.duration = 1]
      IN ReturnLocal(nrvo, r2)

\* _impl->doGet(request, options, progress)
ImpldoGet(b, env, progress, simCode) ==
    IF b.backend = "curl"
    THEN CURLdoGet(env, progress, simCode, b.nrvo)
    ELSE WinInetdoGet(env, b.nrvo)

\* The events a backend can meet: a cancellation needs a callback that is
\* polled, a timeout needs a timer; the WinInet backend has neither, and a
\* broken transfer shows there as a short body
EventPossible(b, env, progress) ==
    /\ env.event = "cancel"  => (b.backend = "curl" /\ progress)
    /\ env.event = "timeout" => b.backend = "curl"
    /\ env.event = "partial" => b.backend = "curl"

----------------------------------------------------------------------------
(* Cache bin and cache policy *)

URLs == {"u1", "u2"}

\* URI::cacheKey of a request URL; the URLs of the model hold no white space
\* and no parameters, so the key is the URL
cacheKey(url) == url

NoEntry == [present |-> FALSE, data |-> "", meta |-> NoHeaders, ts |-> 0]

\* CacheBin::readString: status, blob, metadata and time stamp of the entry
readString(b, key) ==
    [succeeded |-> b[key].present, string |-> b[key].data,
     metadata |-> b[key].meta, lastModifiedTime |-> b[key].ts]

\* CacheBin::write: stores blob and metadata, stamped with the current time
write(b, key, data, meta, t) ==
    [b EXCEPT ![key] = [present |-> TRUE, data |-> data, meta |-> meta, ts |-> t]]

\* CacheBin::touch: updates only the time stamp of an existing entry
touch(b, key, t) ==
    IF b[key].present THEN [b EXCEPT ![key].ts = t] ELSE b

Usages == {"USAGE_READ_WRITE", "USAGE_CACHE_ONLY", "USAGE_NO_CACHE"}

\* The CacheSettings found in the options of a call (present = FALSE: none)
CacheSettings(present, hasCache, usage, maxAge, forceExpire) ==
    [present |-> present, hasCache |-> hasCache, usage |-> usage,
     maxAge |-> maxAge, forceExpire |-> forceExpire]

\* a default-constructed CachePolicy, the value of the unset optional
DefaultSettings == CacheSettings(FALSE, FALSE, "USAGE_READ_WRITE", MaxTime + 1, FALSE)

\* CacheSettings::isCacheEnabled: there is a cache and the policy uses it
isCacheEnabled(cs) == cs.hasCache /\ cs.usage # "USAGE_NO_CACHE"

\* CachePolicy::isExpired(entryTimestamp)
isExpired(cs, lastModified, t) ==
    (t - lastModified > cs.maxAge) \/ cs.forceExpire

\* ReadResult::RESULT_NOT_MODIFIED: the ordinal of the result code in the
\* ReadResult::Code enumeration (RESULT_OK = 0, ...), not an HTTP status
RESULT_NOT_MODIFIED == 10

\* HTTPResponse::CATEGORY_SUCCESS
CATEGORY_SUCCESS == 200

----------------------------------------------------------------------------
(* HTTPClient::doGet *)

\* lines 1579-1608: the look-up in the bin
CacheLookup(b, t, url, cs) ==
    LET binOn  == cs.present /\ isCacheEnabled(cs)
        result == readString(b, cacheKey(url))
        hit    == binOn /\ result.succeeded
        noCache == Find(result.metadata.cacheControl, StrNoCache)
        cacheResponse ==
            [setHeadersFromConfig(
                [HTTPResponse(CATEGORY_SUCCESS) EXCEPT
                    !.mimeType = result.metadata.contentType,
                    !.parts = <<Part(NoHeaders, result.string)>>],
                result.metadata)
             EXCEPT !.fromCache = TRUE]
    IN [binOn |-> binOn,
        gotFromCache |-> hit,
        noCache |-> hit /\ noCache,
        expired |-> hit /\ (noCache \/ isExpired(cs, result.lastModifiedTime, t)),
        response |-> IF hit THEN cacheResponse ELSE HTTPResponse(0),
        ops |-> IF binOn THEN <<"readString">> ELSE <<>>]

\* as NeedsTransport, but a fresh hit does not keep the transport out
NeedsTransport_Always(lk, cs) ==
    cs.usage # "USAGE_CACHE_ONLY"

\* as NeedsTransport, but the usage of the policy is not looked at
NeedsTransport_AnyUsage(lk, cs) ==
    lk.expired \/ ~lk.gotFromCache

\* line 1610: whether the transport is asked
NeedsTransport(lk, cs) ==
    (lk.expired \/ ~lk.gotFromCache) /\ cs.usage # "USAGE_CACHE_ONLY"

\* as WriteIfOK, but the response is written whatever it is
WriteIfOK_Always(b, binOn, t, url, response) ==
    IF binOn
    THEN [bin |-> write(b, cacheKey(url), getPartAsString0(response),
                        getHeadersAsConfig(response), t),
          ops |-> <<"write">>]
    ELSE [bin |-> b, ops |-> <<>>]

\* as WriteIfOK, but nothing is ever written
WriteIfOK_Never(b, binOn, t, url, response) ==
    [bin |-> b, ops |-> <<>>]

\* lines 1624-1631: the bin is written for an OK response
WriteIfOK(b, binOn, t, url, response) ==
    IF isOK(response) /\ binOn
    THEN [bin |-> write(b, cacheKey(url), getPartAsString0(response),
                        getHeadersAsConfig(response), t),
          ops |-> <<"write">>]
    ELSE [bin |-> b, ops |-> <<>>]

\* as AfterTransport, but a failed revalidation falls back to the cached entry
AfterTransport_StaleOnError(b, t, url, lk, remoteResponse) ==
    IF remoteResponse.code = RESULT_NOT_MODIFIED
       \/ (lk.gotFromCache /\ ~isOK(remoteResponse))
    THEN [response |-> lk.response,
          bin |-> IF lk.binOn THEN touch(b, cacheKey(url), t) ELSE b,
          ops |-> IF lk.binOn THEN <<"touch">> ELSE <<>>]
    ELSE LET w == WriteIfOK(b, lk.binOn, t, url, remoteResponse)
         IN [response |-> remoteResponse, bin |-> w.bin, ops |-> w.ops]

\* lines 1612-1632: what doGet does with the transport's response
AfterTransport(b, t, url, lk, remoteResponse) ==
    IF remoteResponse.code = RESULT_NOT_MODIFIED
    THEN [response |-> lk.response,
          bin |-> IF lk.binOn THEN touch(b, cacheKey(url), t) ELSE b,
          ops |-> IF lk.binOn THEN <<"touch">> ELSE <<>>]
    ELSE LET w == WriteIfOK(b, lk.binOn, t, url, remoteResponse)
         IN [response |-> remoteResponse, bin |-> w.bin, ops |-> w.ops]

\* as TransportCalls, but a response that is not OK is asked for again
TransportCalls_RetryOnError(remoteResponse) ==
    IF isOK(remoteResponse) THEN 1 ELSE 2

\* line 1612: the one call of _impl->doGet; no loop encloses it and no
\* branch after it calls the transport again, whatever the response is
TransportCalls(remoteResponse) ==
    1

\* HTTPClient::doGet, whole: cs is the CacheSettings of the options (the
\* policy of an absent one is the default policy)
DoGet(bld, b, t, url, cs0, env, progress, simCode) ==
    LET cs == IF cs0.present THEN cs0 ELSE DefaultSettings
        lk == CacheLookup(b, t, url, cs)
    IN IF NeedsTransport(lk, cs)
       THEN LET remoteResponse == ImpldoGet(bld, env, progress, simCode)
                a == AfterTransport(b, t, url, lk, remoteResponse)
            IN [response |-> ReturnLocal(bld.nrvo, a.response),
                bin |-> a.bin, ops |-> lk.ops \o a.ops,
                transport |-> TransportCalls(remoteResponse), remote |-> remoteResponse,
                gotFromCache |-> lk.gotFromCache, expired |-> lk.expired,
                noCache |-> lk.noCache]
       ELSE [response |-> ReturnLocal(bld.nrvo, lk.response),
             bin |-> b, ops |-> lk.ops,
             transport |-> 0, remote |-> HTTPResponse(0),
             gotFromCache |-> lk.gotFromCache, expired |-> lk.expired,
             noCache |-> lk.noCache]

----------------------------------------------------------------------------
(* Typed reads *)

Kinds == {"readImage", "readNode", "readObject", "readString"}

\* HTTPResponse::getCode: the long _response_code returned as unsigned. A
\* negative code becomes 2^32 + code, which is above every other code; the
\* model gives it the largest number it can hold
getCode(r) == IF r.code < 0 THEN 2147483647 ELSE r.code

\* HTTPResponse::getCodeCategory
getCodeCategory(r) ==
    IF getCode(r) < 100 THEN 0
    ELSE IF getCode(r) < 200 THEN 100
    ELSE IF getCode(r) < 300 THEN 200
    ELSE IF getCode(r) < 400 THEN 300
    ELSE IF getCode(r) < 500 THEN 400
    ELSE 500

ExtPng == <<"p", "n", "g">>
ExtJpg == <<"j", "p", "g">>

\* the text of a URL: u1 names a file and carries a query string that ends
\* like another file name, u2 names no file
URLString(url) ==
    IF url = "u1"
    THEN <<"t", ".", "p", "n", "g", "?", "f", "=", "a", ".", "j", "p", "g">>
    ELSE <<"t">>

\* removeQueryParams: the URL up to its first question mark
removeQueryParams(str) ==
    LET qs == {i \in 1..Len(str) : str[i] = "?"}
    IN IF qs = {} THEN str
       ELSE SubSeq(str, 1, (CHOOSE i \in qs : \A j \in qs : i <= j) - 1)

\* osgDB::getFileExtension: what follows the last dot, nothing when there
\* is no dot or a slash follows it
getFileExtension(str) ==
    LET dots == {i \in 1..Len(str) : str[i] = "."}
        last == CHOOSE i \in dots : \A j \in dots : j <= i
    IN IF dots = {} THEN <<>>
       ELSE IF \E i \in (last + 1)..Len(str) : str[i] = "/" THEN <<>>
       ELSE SubSeq(str, last + 1, Len(str))

\* the extension getReader looks up: that of the URL without its query
FileExtension(url) == getFileExtension(removeQueryParams(URLString(url)))

\* as getReader, but the extension is tried before the content
getReader_ExtensionFirst(url, response, reg) ==
    IF FileExtension(url) # <<>> /\ FileExtension(url) \in reg.ext THEN "byExtension"
    ELSE IF Len(response.parts) > 0 /\ reg.sniff THEN "bySignature"
    ELSE IF response.mimeType # "" /\ reg.mime THEN "byMimeType"
    ELSE "none"

\* getReader: reg tells which look-ups of the registry find a reader
getReader(url, response, reg) ==
    IF Len(response.parts) > 0 /\ reg.sniff THEN "bySignature"
    ELSE IF FileExtension(url) # <<>> /\ FileExtension(url) \in reg.ext THEN "byExtension"
    ELSE IF response.mimeType # "" /\ reg.mime THEN "byMimeType"
    ELSE "none"

\* getReader: the look-ups it makes, in the order it makes them
ReaderLookups(url, response, reg) ==
    LET bySig == Len(response.parts) > 0
        foundSig == bySig /\ reg.sniff
        byExt == ~foundSig /\ FileExtension(url) # <<>>
        foundExt == byExt /\ FileExtension(url) \in reg.ext
        byMime == ~foundSig /\ ~foundExt /\ response.mimeType # ""
    IN (IF bySig THEN <<"signature">> ELSE <<>>)
       \o (IF byExt THEN <<"extension">> ELSE <<>>)
       \o (IF byMime THEN <<"mimeType">> ELSE <<>>)

\* as ErrorCode, but the canceled flag is not looked at
ErrorCode_NoCancel(kind, response) ==
    IF response.code = 404 THEN "RESULT_NOT_FOUND"
    ELSE IF response.code = 304 THEN "RESULT_NOT_MODIFIED"
    ELSE IF response.code >= 500 THEN "RESULT_SERVER_ERROR"
    ELSE "RESULT_UNKNOWN_ERROR"

\* as ErrorCode, but a 404 is not told from the other client errors
ErrorCode_NoNotFound(kind, response) ==
    IF response.canceled THEN "RESULT_CANCELED"
    ELSE IF response.code = 304 THEN "RESULT_NOT_MODIFIED"
    ELSE IF kind = "readImage" /\ response.code = 403 THEN "RESULT_UNAUTHORIZED"
    ELSE IF response.code >= 500 THEN "RESULT_SERVER_ERROR"
    ELSE "RESULT_UNKNOWN_ERROR"

\* the ?: chain that maps a response that is not OK to a result code
ErrorCode(kind, response) ==
    IF response.canceled THEN "RESULT_CANCELED"
    ELSE IF response.code = 404 THEN "RESULT_NOT_FOUND"
    ELSE IF response.code = 304 THEN "RESULT_NOT_MODIFIED"
    ELSE IF kind = "readImage" /\ response.code = 403 THEN "RESULT_UNAUTHORIZED"
    ELSE IF getCodeCategory(response) = 500 THEN "RESULT_SERVER_ERROR"
    ELSE "RESULT_UNKNOWN_ERROR"

\* HTTPClient::isRecoverable
isRecoverable(code) ==
    code \in {"RESULT_SERVER_ERROR", "RESULT_TIMEOUT", "RESULT_CANCELED"}

\* the branch a typed read takes for an OK response
OKBranch(kind, response) ==
    IF kind = "readString"
    THEN isOK(response) /\ Len(response.parts) > 0
    ELSE isOK(response)

\* the result code of the OK branch
DecodeCode(kind, url, response, reg) ==
    IF kind = "readString" THEN "RESULT_OK"
    ELSE IF getReader(url, response, reg) = "none" THEN "RESULT_NO_READER"
    ELSE IF Len(response.parts) > 0 /\ reg.valid THEN "RESULT_OK"
    ELSE "RESULT_READER_ERROR"

NoCallback ==
    [retryDelaySet |-> FALSE, canceled |-> FALSE, message |-> "", calls |-> <<>>]

\* as CallbackAfter, but every error result cancels the callback
CallbackAfter_AnyError(kind, response, code, progress) ==
    IF progress
    THEN [retryDelaySet |-> TRUE, canceled |-> TRUE, message |-> "",
          calls |-> <<"setRetryDelay", "cancel">>]
    ELSE NoCallback

\* what the else branch of a read does to the caller's progress callback
CallbackAfter(kind, response, code, progress) ==
    IF progress /\ isRecoverable(code)
    THEN [retryDelaySet |-> TRUE, canceled |-> TRUE,
          message |-> IF kind = "readImage" /\ response.code = 503
                      THEN "Server deferral" ELSE "",
          calls |-> <<"setRetryDelay", "cancel">>]
    ELSE NoCallback

\* setMetadata
setMetadata(url, response) ==
    [headers |-> getHeadersAsConfig(response),
     URI |-> url,
     requestError |-> IF response.code # 0 THEN "absent"
                      ELSE IF response.message # "" THEN response.message
                      ELSE "Request Error (UNKNOWN)",
     responseCode |-> IF response.code # 0 THEN response.code ELSE -1,
     requestHeaders |-> response.code # 0]

NoResult ==
    [code |-> "none", fromCache |-> FALSE, lastModified |-> 0, reader |-> "none",
     registry |-> [sniff |-> FALSE, ext |-> {}, mime |-> FALSE, valid |-> FALSE],
     lookups |-> <<>>, decoderInvoked |-> FALSE,
     metadata |-> setMetadata("u1", HTTPResponse(0)), callback |-> NoCallback]

\* doReadImage, doReadNode, doReadObject, doReadString after their doGet
TypedRead(kind, url, response, reg, progress) ==
    LET ok   == OKBranch(kind, response)
        code == IF ok THEN DecodeCode(kind, url, response, reg)
                ELSE ErrorCode(kind, response)
    IN [code |-> code,
        fromCache |-> IF kind = "readObject" THEN FALSE ELSE response.fromCache,
        lastModified |-> IF ok \/ kind = "readString"
                         THEN response.lastModified ELSE 0,
        reader |-> IF ok /\ kind # "readString"
                   THEN getReader(url, response, reg) ELSE "none",
        registry |-> reg,
        lookups |-> IF ok /\ kind # "readString"
                    THEN ReaderLookups(url, response, reg) ELSE <<>>,
        decoderInvoked |-> /\ ok /\ kind # "readString"
                           /\ getReader(url, response, reg) # "none"
                           /\ Len(response.parts) > 0,
        metadata |-> setMetadata(url, response),
        callback |-> IF ok THEN NoCallback
                     ELSE CallbackAfter(kind, response, code, progress)]

----------------------------------------------------------------------------
(* Inputs *)

MaxAges == {1}

\* the options a caller may pass: none, or CacheSettings with a cache and
\* one of the three usages
Settings ==
    {DefaultSettings}
    \cup {CacheSettings(TRUE, TRUE, "USAGE_READ_WRITE", a, f) : a \in MaxAges, f \in BOOLEAN}
    \cup {CacheSettings(TRUE, TRUE, u, a, FALSE) :
             u \in {"USAGE_CACHE_ONLY", "USAGE_NO_CACHE"}, a \in MaxAges}

\* the options of the callers of typed reads
ReadSettings ==
    {DefaultSettings}
    \cup {CacheSettings(TRUE, TRUE, u, a, FALSE) :
             u \in {"USAGE_READ_WRITE", "USAGE_CACHE_ONLY"}, a \in MaxAges}

EnvOK1      == Env("none", 200, "b1", StrMaxAge, "image/png", 1, FALSE, TRUE, FALSE)
EnvOK2      == Env("none", 200, "b2", StrPrivateNoCache, "image/png", 1, FALSE, TRUE, FALSE)
EnvStatus(c) == Env("none", c, "err", <<>>, "text/html", 0, FALSE, TRUE, FALSE)
EnvCancel   == Env("cancel", 200, "b1", <<>>, "image/png", 0, FALSE, TRUE, FALSE)
EnvTimeout  == Env("timeout", 200, "b1", <<>>, "image/png", 0, FALSE, TRUE, FALSE)
EnvNetErr   == Env("neterr", 0, "", <<>>, "", 0, FALSE, TRUE, FALSE)
EnvPartial  == Env("partial", 200, "b1", <<>>, "image/png", 0, FALSE, TRUE, FALSE)
EnvProxyErr == Env("none", 200, "b1", <<>>, "image/png", 0, TRUE, FALSE, FALSE)

\* what the network may do during a GET of the client
ClientEnvs ==
    {EnvOK1, EnvOK2, EnvStatus(304), EnvStatus(404), EnvCancel, EnvNetErr}

\* what the network may do during the GET of a typed read
ReadEnvs ==
    {EnvOK1, EnvCancel, EnvTimeout, EnvNetErr, EnvStatus(304), EnvStatus(401),
     EnvStatus(403), EnvStatus(404), EnvStatus(500)}

\* what the network may do during a GET made on a backend
TransportEnvs ==
    {Env(e, c, "b1", cc, "image/png", 1, px, ok, hz) :
        e \in Events, c \in {200, 304, 404, 500}, cc \in {<<>>, StrNoCache},
        px \in BOOLEAN, ok \in BOOLEAN, hz \in BOOLEAN}

Registry(sniff, ext, mime, valid) ==
    [sniff |-> sniff, ext |-> ext, mime |-> mime, valid |-> valid]

\* the reader registries of the model: no reader at all; a reader behind
\* every look-up; readers by extension (one that fails to decode) and by
\* MIME type; a reader by MIME type and one for the extension jpg only
Registries ==
    {Registry(FALSE, {}, FALSE, FALSE), Registry(TRUE, {ExtPng}, TRUE, TRUE),
     Registry(FALSE, {ExtPng}, TRUE, FALSE), Registry(FALSE, {ExtJpg}, TRUE, TRUE)}

\* the registry matters only to a read that decodes
RegistriesFor(kind, response) ==
    IF kind # "readString" /\ isOK(response)
    THEN Registries
    ELSE {Registry(FALSE, {}, FALSE, FALSE)}

ReadURLs == {"u1"}

----------------------------------------------------------------------------
(* HTTPRequest *)

\* the parameter names, in the order std::less gives them
ParamNames == <<"a", "b">>
ParamValues == {"1", "2"}
NoValue == "absent"

\* the URLs a request is made for: plain, with a query, with a space
RequestURLs == {<<"h">>, <<"h", "?", "q">>, <<"h", " ", "p">>}

\* osgEarth::replaceIn(_url, " ", "%20")
RECURSIVE replaceSpaces(_)
replaceSpaces(str) ==
    IF str = <<>> THEN <<>>
    ELSE (IF Head(str) = " " THEN <<"%", "2", "0">> ELSE <<Head(str)>>)
         \o replaceSpaces(Tail(str))

\* HTTPRequest::HTTPRequest(url)
HTTPRequest(url) ==
    [given |-> url, url |-> replaceSpaces(url),
     parameters |-> [i \in 1..Len(ParamNames) |-> NoValue],
     history |-> <<>>, rendered |-> FALSE, text |-> <<>>]

\* the place of a name in the map
NameIndex(name) == CHOOSE i \in 1..Len(ParamNames) : ParamNames[i] = name

\* HTTPRequest::addParameter: _parameters[name] = value
addParameter(r, name, value) ==
    [r EXCEPT !.parameters[NameIndex(name)] = value,
              !.history = Append(@, <<name, value>>)]

\* the loop of getURL over the map, from its i-th name on
RECURSIVE RenderParameters(_, _, _)
RenderParameters(r, i, first) ==
    IF i > Len(ParamNames) THEN <<>>
    ELSE IF r.parameters[i] = NoValue THEN RenderParameters(r, i + 1, first)
    ELSE <<IF first /\ ~\E j \in 1..Len(r.url) : r.url[j] = "?" THEN "?" ELSE "&",
           ParamNames[i], "=", r.parameters[i]>>
         \o RenderParameters(r, i + 1, FALSE)

\* HTTPRequest::getURL
getURL(r) ==
    IF \A i \in 1..Len(ParamNames) : r.parameters[i] = NoValue
    THEN r.url
    ELSE r.url \o RenderParameters(r, 1, TRUE)

\* a caller makes a request
RequestNew(url) ==
    /\ req' = HTTPRequest(url)
    /\ UNCHANGED <<build, procVars, clientVars, tcall, gateVars, config, moreVars>>

\* a caller adds a parameter
RequestAddParameter(name, value) ==
    /\ Len(req.history) < MaxParams
    /\ req' = [addParameter(req, name, value) EXCEPT !.rendered = FALSE, !.text = <<>>]
    /\ UNCHANGED <<build, procVars, clientVars, tcall, gateVars, config, moreVars>>

\* a caller asks for the URL
RequestGetURL ==
    /\ ~req.rendered
    /\ req' = [req EXCEPT !.rendered = TRUE, !.text = getURL(req)]
    /\ UNCHANGED <<build, procVars, clientVars, tcall, gateVars, config, moreVars>>

----------------------------------------------------------------------------
(* Config *)

ConfigKeys == {"k", "K", "j"}

\* "", " ", "x", " x"
ConfigValues == {<<>>, <<" ">>, <<"x">>, <<" ", "x">>}

\* what the caller's output variable holds before a get
OutBefore == <<"o">>

\* ci_equals: equal but for the case of the letters
ci_equals(lhs, rhs) ==
    LET lower(c) == IF c = "K" THEN "k" ELSE c
    IN lower(lhs) = lower(rhs)

\* Config::keys_equal
keys_equal(lhs, rhs) == ci_equals(lhs, rhs)

\* osgEarth::trim: the string without the blanks at its ends
RECURSIVE trim(_)
trim(str) ==
    IF str = <<>> THEN <<>>
    ELSE IF Head(str) = " " THEN trim(Tail(str))
    ELSE IF str[Len(str)] = " " THEN trim(SubSeq(str, 1, Len(str) - 1))
    ELSE str

\* Config(key, value) for a string value
Config(key, value) == [key |-> key, defaultValue |-> value, children |-> <<>>]

\* Config::hasChild
hasChild(c, key) ==
    \E i \in 1..Len(c.children) : keys_equal(c.children[i].key, key)

\* Config::child: the first child with the key, or an empty Config
child(c, key) ==
    IF hasChild(c, key)
    THEN c.children[CHOOSE i \in 1..Len(c.children) :
                       /\ keys_equal(c.children[i].key, key)
                       /\ \A j \in 1..(i - 1) : ~keys_equal(c.children[j].key, key)]
    ELSE Config("", <<>>)

\* Config::remove: all children with the key go
remove_FirstOnly(c, key) ==
    IF ~hasChild(c, key) THEN c
    ELSE LET i == CHOOSE k \in 1..Len(c.children) :
                     /\ keys_equal(c.children[k].key, key)
                     /\ \A j \in 1..(k - 1) :
                            ~keys_equal(c.children[j].key, key)
         IN [c EXCEPT !.children = SubSeq(@, 1, i - 1)
                                   \o SubSeq(@, i + 1, Len(@))]

remove(c, key) ==
    [c EXCEPT !.children = SelectSeq(@, LAMBDA ch : ~keys_equal(ch.key, key))]

\* Config::add(conf)
add(c, ch) == [c EXCEPT !.children = Append(@, ch)]

\* Config::set(key, value): set(Config(key, value)), which removes and adds
set(c, key, value) == add(remove(c, key), Config(key, value))

\* Config::value(key)
value(c, key) ==
    LET r == trim(child(c, key).defaultValue)
    IN IF r = <<>> /\ keys_equal(c.key, key) THEN c.defaultValue ELSE r

\* Config::hasValue
hasValue(c, key) == value(c, key) # <<>>

\* Config::value<T>(key, fallback) for T = std::string
valueAs(c, key, fallback) ==
    IF hasChild(c, key) THEN child(c, key).defaultValue ELSE <<>>

\* Config::get(key, output): what it returns and what output holds after
get(c, key, output) ==
    IF hasValue(c, key)
    THEN [returned |-> TRUE, output |-> valueAs(c, key, output)]
    ELSE [returned |-> FALSE, output |-> output]

NoSet == [made |-> FALSE, key |-> "", value |-> <<>>, before |-> <<>>]
NoGet == [made |-> FALSE, key |-> "", returned |-> FALSE, output |-> <<>>]

\* a Config with a key and a value of its own, nothing set or got yet
ConfigState(c) == [c |-> c, lastSet |-> NoSet, lastGet |-> NoGet]

\* a caller appends a child
ConfigAdd(key, v) ==
    /\ Len(config.c.children) < MaxChildren
    /\ config' = [c |-> add(config.c, Config(key, v)), lastSet |-> NoSet, lastGet |-> NoGet]
    /\ UNCHANGED <<build, procVars, clientVars, tcall, gateVars, req, moreVars>>

\* a caller sets a key
ConfigSet(key, v) ==
    /\ Len(remove(config.c, key).children) < MaxChildren
    /\ config' = [c |-> set(config.c, key, v),
                lastSet |-> [made |-> TRUE, key |-> key, value |-> v,
                             before |-> config.c.children],
                lastGet |-> NoGet]
    /\ UNCHANGED <<build, procVars, clientVars, tcall, gateVars, req, moreVars>>

\* a caller gets a key
ConfigGet(key) ==
    /\ config' = [config EXCEPT !.lastGet =
                    [made |-> TRUE, key |-> key,
                     returned |-> get(config.c, key, OutBefore).returned,
                     output |-> get(config.c, key, OutBefore).output]]
    /\ UNCHANGED <<build, procVars, clientVars, tcall, gateVars, req, moreVars>>

\* the numbers a caller stores, and the text Config(key, number) holds
Numbers == {5, 50}

\* optional<double>
Optionals == {[set |-> FALSE, value |-> 0]}
                 \cup {[set |-> TRUE, value |-> n] : n \in Numbers}

NumberString(n) == IF n = 5 THEN <<"5">> ELSE <<"5", "0">>

\* osgEarth::Util::as<double>: the number the text starts with, or the
\* fallback
asNumber(str, fallback) ==
    IF Len(str) >= 2 /\ SubSeq(str, 1, 2) = <<"5", "0">> THEN 50
    ELSE IF Len(str) >= 1 /\ str[1] = "5" THEN 5
    ELSE fallback

\* Config::set(key, optional<double>, optional<bool> is_percentage);
\* conf.set(key, str + '%') sets a child of conf
setPercentage(c, key, opt, is_percentage) ==
    IF ~opt.set THEN remove(c, key)
    ELSE LET conf0 == Config(key, NumberString(opt.value))
             str   == value(conf0, key)
             conf  == IF is_percentage = "true"
                      THEN set(conf0, key, str \o <<"%">>)
                      ELSE conf0
         IN add(remove(remove(c, key), conf.key), conf)

\* Config::get(key, optional<double>& output, optional<bool>& is_percentage)
\* up to the test of the last character
getPercentage(c, key) ==
    IF hasChild(c, key) /\ child(c, key).defaultValue # <<>>
    THEN [returned |-> TRUE,
          output   |-> asNumber(child(c, key).defaultValue, 0),
          text     |-> trim(child(c, key).defaultValue)]
    ELSE [returned |-> FALSE, output |-> 0, text |-> <<"?">>]

\* a caller stores a number as a possible percentage
ConfigSetPercentage(key, opt, is_percentage) ==
    /\ Len(remove(config.c, key).children) < MaxChildren
    /\ config' = [c |-> setPercentage(config.c, key, opt, is_percentage),
                  lastSet |-> [made |-> TRUE, key |-> key,
                               value |-> opt, before |-> <<>>,
                               is_percentage |-> is_percentage],
                  lastGet |-> NoGet]
    /\ UNCHANGED <<build, procVars, clientVars, tcall, gateVars, req, moreVars>>

\* a caller reads a number as a possible percentage; back() of an empty
\* trimmed text is undefined
ConfigGetPercentage(key) ==
    /\ LET g == getPercentage(config.c, key)
       IN \E undefinedBack \in {"true", "unset"} :
            config' = [config EXCEPT !.lastGet =
                         [made |-> TRUE, key |-> key,
                          returned |-> g.returned, output |-> g.output,
                          is_percentage |->
                             IF ~g.returned THEN "unset"
                             ELSE IF g.text = <<>> THEN undefinedBack
                             ELSE IF g.text[Len(g.text)] = "%" THEN "true"
                             ELSE "unset"]]
    /\ UNCHANGED <<build, procVars, clientVars, tcall, gateVars, req, moreVars>>

----------------------------------------------------------------------------
(* Functions of HTTPResponse, called on their own *)

MaxCode == 610

NoProbe == [op |-> "none"]

\* the codes a response is made with: all up to MaxCode, and -1
Codes == (0..MaxCode) \cup {-1}

\* a caller asks for the category of a response
ProbeCategory(code) ==
    /\ probe' = [op |-> "getCodeCategory", code |-> code,
                 category |-> getCodeCategory(HTTPResponse(code))]
    /\ UNCHANGED <<build, procVars, clientVars, tcall, gateVars, req, config,
                   handle, glob, gpu>>

\* a caller copy-constructs a response from the one a GET of the curl
\* backend built (HTTPResponse copy(original);)
ProbeCopy(env, progress) ==
    LET original == CURLdoGet(env, progress, 0, TRUE)
    IN /\ probe' = [op |-> "copy", original |-> original,
                    copy |-> CopyHTTPResponse(original)]
       /\ UNCHANGED <<build, procVars, clientVars, tcall, gateVars, req, config,
                      handle, glob, gpu>>

----------------------------------------------------------------------------
(* The curl handle of one client: proxy, credentials, config handler *)

NoSource == [set |-> FALSE, host |-> "", port |-> ""]
Source(host, port) == [set |-> TRUE, host |-> host, port |-> port]

\* where a proxy may be configured: the global ProxySettings, the option
\* string and the ProxySettings of the options of the request, the
\* environment (whose port variable may be missing)
\* globalAuth: user name and password of the global ProxySettings, as
\*   "user:password", or "" when one of them is empty
\* envAuth: OSGEARTH_CURL_PROXYAUTH, or "" when it is not set
ProxySources ==
    {px \in [global     : {NoSource, Source("gh", "gp")},
             globalAuth : {"", "ga"},
             optString  : {NoSource, Source("sh", "sp")},
             options    : {NoSource, Source("oh", "op")},
             env        : {NoSource, Source("eh", "ep"), Source("eh", "")},
             envAuth    : {"", "ea"}] :
        ~px.global.set => px.globalAuth = ""}

\* lines 537-583: proxy_host and proxy_port after the four sources were read
ResolveProxy(px) ==
    LET g == IF px.global.set
             THEN [host |-> px.global.host, port |-> px.global.port]
             ELSE [host |-> "", port |-> "8080"]
        o == IF px.optString.set
             THEN [host |-> px.optString.host, port |-> px.optString.port] ELSE g
        p == IF px.options.set
             THEN [host |-> px.options.host, port |-> px.options.port] ELSE o
    IN IF px.env.set
       THEN [host |-> px.env.host,
             port |-> IF px.env.port # "" THEN px.env.port ELSE p.port]
       ELSE p

\* lines 552-558 and 585-589: proxy_auth
ResolveProxyAuth(px) ==
    IF px.envAuth # "" THEN px.envAuth
    ELSE IF px.global.set THEN px.globalAuth ELSE ""

\* lines 591-623: the proxy options on the handle after they were set up;
\* "" is an option that is not set
SetProxy_ClearAuth(curl, px) ==
    LET proxy == ResolveProxy(px)
        auth  == ResolveProxyAuth(px)
    IN IF proxy.host # ""
       THEN [curl EXCEPT !.CURLOPT_PROXY = <<proxy.host, proxy.port>>,
                         !.CURLOPT_PROXYUSERPWD = auth]
       ELSE [curl EXCEPT !.CURLOPT_PROXY = <<>>,
                         !.CURLOPT_PROXYUSERPWD = ""]

SetProxy(curl, px) ==
    LET proxy == ResolveProxy(px)
        auth  == ResolveProxyAuth(px)
    IN IF proxy.host # ""
       THEN [curl EXCEPT !.CURLOPT_PROXY = <<proxy.host, proxy.port>>,
                         !.CURLOPT_PROXYUSERPWD =
                             IF auth # "" THEN auth ELSE @]
       ELSE [curl EXCEPT !.CURLOPT_PROXY = <<>>]

NoDetails == [present |-> FALSE, userpwd |-> "", httpAuthentication |-> 0]

\* the AuthenticationDetails the map may hold for the URL of a GET
Details ==
    {NoDetails}
    \cup {[present |-> TRUE, userpwd |-> "c1", httpAuthentication |-> 1],
          [present |-> TRUE, userpwd |-> "c1", httpAuthentication |-> 2],
          [present |-> TRUE, userpwd |-> "c2", httpAuthentication |-> 1]}

ConfigHandlers == {"none", "h1", "h2"}

NoGet0 ==
    [made |-> FALSE, px |-> [global |-> NoSource, globalAuth |-> "",
                             optString |-> NoSource, options |-> NoSource,
                             env |-> NoSource, envAuth |-> ""],
     proxy |-> [host |-> "", port |-> "8080"],
     details |-> NoDetails, previous |-> "", handler |-> "none", events |-> <<>>]

\* a CURLImplementation as constructed, and the global config handler
NoHandle ==
    [initialized |-> FALSE, initializations |-> 0, onInitialize |-> {},
     s_curlConfigHandler |-> "none",
     previousPassword |-> "", previousHttpAuthentication |-> 0,
     curl |-> [CURLOPT_USERPWD |-> "", CURLOPT_HTTPAUTH |-> 0,
               CURLOPT_PROXY |-> <<>>, CURLOPT_PROXYUSERPWD |-> ""],
     used |-> "", last |-> NoGet0]

\* lines 634-672: the credentials of the GET are put on the handle
SetCredentials_NoReset(h, details) ==
    IF details.present
    THEN [previousPassword |-> details.userpwd,
          previousHttpAuthentication |-> details.httpAuthentication,
          CURLOPT_USERPWD |-> details.userpwd,
          CURLOPT_HTTPAUTH |-> details.httpAuthentication,
          events |-> <<"CURLOPT_USERPWD">>]
    ELSE [previousPassword |-> "", previousHttpAuthentication |-> 0,
          CURLOPT_USERPWD |-> h.curl.CURLOPT_USERPWD,
          CURLOPT_HTTPAUTH |-> h.curl.CURLOPT_HTTPAUTH,
          events |-> <<>>]

SetCredentials(h, details) ==
    IF details.present
    THEN [previousPassword |-> details.userpwd,
          previousHttpAuthentication |-> details.httpAuthentication,
          CURLOPT_USERPWD |-> details.userpwd,
          CURLOPT_HTTPAUTH |->
              IF details.httpAuthentication # h.previousHttpAuthentication
              THEN details.httpAuthentication ELSE h.curl.CURLOPT_HTTPAUTH,
          events |-> <<"CURLOPT_USERPWD">>
                     \o (IF details.httpAuthentication # h.previousHttpAuthentication
                         THEN <<"CURLOPT_HTTPAUTH">> ELSE <<>>)]
    ELSE [previousPassword |-> "", previousHttpAuthentication |-> 0,
          CURLOPT_USERPWD |->
              IF h.previousPassword # "" THEN "" ELSE h.curl.CURLOPT_USERPWD,
          CURLOPT_HTTPAUTH |->
              IF h.previousHttpAuthentication # 0
              THEN 0 ELSE h.curl.CURLOPT_HTTPAUTH,
          events |-> (IF h.previousPassword # ""
                      THEN <<"CURLOPT_USERPWD">> ELSE <<>>)
                     \o (IF h.previousHttpAuthentication # 0
                         THEN <<"CURLOPT_HTTPAUTH">> ELSE <<>>)]

\* HTTPClient::initialize and CURLImplementation::initialize: done once
CURLInitialize(h) ==
    IF h.initialized THEN h
    ELSE [h EXCEPT !.initialized = TRUE,
                   !.initializations = @ + 1,
                   !.previousHttpAuthentication = 0,
                   !.onInitialize = IF h.s_curlConfigHandler # "none"
                                    THEN {h.s_curlConfigHandler} ELSE {}]

\* HTTPClient::setConfigHandler
SetConfigHandler(handler) ==
    /\ handle.s_curlConfigHandler # handler
    /\ handle' = [handle EXCEPT !.s_curlConfigHandler = handler]
    /\ UNCHANGED <<build, procVars, clientVars, tcall, gateVars, req, config,
                   probe, glob, gpu>>

\* a GET of the client on its curl handle, up to curl_easy_perform
HandleGet(px, details) ==
    LET h == CURLInitialize(handle)
        proxy == ResolveProxy(px)
        c == SetCredentials(h, details)
    IN /\ handle' =
            [h EXCEPT
               !.previousPassword = c.previousPassword,
               !.previousHttpAuthentication = c.previousHttpAuthentication,
               !.curl = [SetProxy(h.curl, px) EXCEPT
                           !.CURLOPT_USERPWD = c.CURLOPT_USERPWD,
                           !.CURLOPT_HTTPAUTH = c.CURLOPT_HTTPAUTH],
               !.used = details.userpwd,
               !.last = [made |-> TRUE, px |-> px, proxy |-> proxy,
                         details |-> details, previous |-> handle.used,
                         handler |-> h.s_curlConfigHandler,
                         events |-> <<"CURLOPT_PROXY">> \o c.events
                                    \o (IF h.s_curlConfigHandler # "none"
                                        THEN <<"onGet">> ELSE <<>>)
                                    \o <<"curl_easy_perform">>]]
       /\ UNCHANGED <<build, procVars, clientVars, tcall, gateVars, req, config,
                      probe, glob, gpu>>

----------------------------------------------------------------------------
(* The HTTPClient of one thread *)

\* HTTPClient::initializeImpl: the simulated code after initialize()
SimCodeAfterInit ==
    IF initialized THEN s_simResponseCode
    ELSE IF build.httpDisable THEN 500 ELSE s_simResponseCode

\* HTTPClient::initialize
Initialize ==
    /\ ~initialized
    /\ initialized' = TRUE
    /\ s_simResponseCode' = SimCodeAfterInit
    /\ UNCHANGED <<build, dataVars, clientVars, tcall, gateVars>>

NoCall ==
    [kind |-> "none", url |-> "u1", cs |-> DefaultSettings, progress |-> FALSE,
     event |-> "unused", time |-> 0, pre |-> NoEntry, transport |-> 0,
     remote |-> HTTPResponse(0), response |-> HTTPResponse(0), ops |-> <<>>,
     gotFromCache |-> FALSE, expired |-> FALSE, noCache |-> FALSE,
     result |-> NoResult]

CallRecord(kind, url, cs, env, progress, g, result) ==
    [kind |-> kind, url |-> url, cs |-> cs, progress |-> progress,
     event |-> IF g.transport = 1 THEN env.event ELSE "unused",
     time |-> now, pre |-> bin[cacheKey(url)], transport |-> g.transport,
     remote |-> g.remote, response |-> g.response, ops |-> g.ops,
     gotFromCache |-> g.gotFromCache, expired |-> g.expired,
     noCache |-> g.noCache, result |-> result]

\* HTTPClient::doGet(request, options, progress)
ClientGet(url, cs, env, progress) ==
    /\ EventPossible(build, env, progress)
    /\ LET g == DoGet(build, bin, now, url, cs, env, progress, SimCodeAfterInit)
       IN /\ bin' = g.bin
          /\ call' = CallRecord("doGet", url, cs, env, progress, g, NoResult)
    /\ initialized' = TRUE
    /\ s_simResponseCode' = SimCodeAfterInit
    /\ UNCHANGED <<build, dataVars, now, tcall, gateVars>>

\* HTTPClient::doReadImage, doReadNode, doReadObject, doReadString
ClientRead(kind, url, cs, env, progress) ==
    /\ EventPossible(build, env, progress)
    /\ LET g == DoGet(build, bin, now, url, cs, env, progress, SimCodeAfterInit)
       IN \E reg \in RegistriesFor(kind, g.response) :
            /\ bin' = g.bin
            /\ call' = CallRecord(kind, url, cs, env, progress, g,
                                  TypedRead(kind, url, g.response, reg, progress))
    /\ initialized' = TRUE
    /\ s_simResponseCode' = SimCodeAfterInit
    /\ UNCHANGED <<build, dataVars, now, tcall, gateVars>>

\* the clock advances
Tick ==
    /\ now < MaxTime
    /\ now' = now + 1
    /\ UNCHANGED <<build, dataVars, procVars, bin, call, tcall, gateVars>>

----------------------------------------------------------------------------
(* A GET on the transport backend of an initialized client *)

NoTCall == [made |-> FALSE, env |-> EnvNetErr, progress |-> FALSE,
            response |-> HTTPResponse(0),
            \* the WinInet backend builds no header list
            slist |-> [headers |-> <<>>, freed |-> TRUE, path |-> "none"]]

\* the curl_slist of CURLImplementation::doGet when it returns: line 689
\* always appends "pragma: ", so the list is never NULL; the returns at line
\* 734 (cancel or timeout), 751 (proxy connect error) and 887 (end) leave
\* it freed or not
HeaderList(env, progress) ==
    LET res == curl_easy_perform(env, progress)
        headers == <<"pragma: ">>
    IN IF res = "CURLE_ABORTED_BY_CALLBACK" \/ res = "CURLE_OPERATION_TIMEDOUT"
       THEN [headers |-> headers, freed |-> FALSE, path |-> "canceled"]
       ELSE IF env.proxy /\ ~env.connectInfoOK
       THEN [headers |-> headers, freed |-> TRUE, path |-> "proxy error"]
       ELSE [headers |-> headers, freed |-> TRUE, path |-> "end"]

\* HTTPClient::Implementation::doGet
TransportGet(env, progress) ==
    /\ initialized
    /\ EventPossible(build, env, progress)
    /\ tcall' = [made |-> TRUE, env |-> env, progress |-> progress,
                 response |-> ImpldoGet(build, env, progress, s_simResponseCode),
                 slist |-> IF build.backend = "curl"
                           THEN HeaderList(env, progress) ELSE NoTCall.slist]
    /\ UNCHANGED <<build, dataVars, procVars, clientVars, gateVars>>

----------------------------------------------------------------------------
(* The tile pipeline: threads fetch Tile Keys through the keygate *)

Threads  == 1..NumThreads

\* the fetches counted for a Tile Key; each thread of one round adds one
MaxCalls == NumThreads + 1
TileKeys == {"k1", "k2"}

\* the URL the template gives for a Tile Key
TileURL(k) == IF k = "k1" THEN "u1" ELSE "u2"

\* the cache settings of the layer the pipeline serves: none, or a cache
GateSettings ==
    {DefaultSettings, CacheSettings(TRUE, TRUE, "USAGE_READ_WRITE", 1, FALSE)}

GateEnvs == {EnvOK1, EnvOK2, EnvStatus(404)}

NoRequest == [key |-> "none", cs |-> DefaultSettings]

NoLookup ==
    [binOn |-> FALSE, gotFromCache |-> FALSE, noCache |-> FALSE,
     expired |-> FALSE, response |-> HTTPResponse(0), ops |-> <<>>]

\* a thread asks for Tile Key k: it queues at the gate
Arrive(t, k) ==
    /\ pc[t] = "idle"
    /\ pc' = [pc EXCEPT ![t] = "waiting"]
    /\ tkey' = [tkey EXCEPT ![t] = [key |-> k, cs |-> build.layerSettings]]
    /\ late' = IF k \in responded THEN late \cup {k} ELSE late
    /\ UNCHANGED <<build, dataVars, procVars, clientVars, tcall, held, tres, tpending,
                   ncalls, responded>>

\* Gate::lock(key) of a gate that lets every arrival in
Enter_NoWait(t) ==
    /\ pc[t] = "waiting"
    /\ held' = held \cup {tkey[t].key}
    /\ pc' = [pc EXCEPT ![t] = "got"]
    /\ UNCHANGED <<build, dataVars, procVars, clientVars, tcall, tkey, tres,
                   tpending, ncalls, responded, late>>

\* Gate::lock(key) returns: the thread enters doGet and looks the URL up
Enter(t) ==
    /\ pc[t] = "waiting"
    /\ tkey[t].key \notin held
    /\ held' = held \cup {tkey[t].key}
    /\ LET k  == tkey[t].key
           cs == tkey[t].cs
           lk == CacheLookup(bin, now, TileURL(k), cs)
       IN IF NeedsTransport(lk, cs)
          THEN /\ pc' = [pc EXCEPT ![t] = "transport"]
               /\ tpending' = [tpending EXCEPT ![t] = lk]
               /\ ncalls' = [ncalls EXCEPT
                               ![k] = IF @ < MaxCalls THEN @ + 1 ELSE @]
               /\ tres' = tres
          ELSE /\ pc' = [pc EXCEPT ![t] = "got"]
               /\ tres' = [tres EXCEPT ![t] = ReturnLocal(build.nrvo, lk.response)]
               /\ UNCHANGED <<tpending, ncalls>>
    /\ UNCHANGED <<build, dataVars, procVars, clientVars, tcall, tkey, responded, late>>

\* the transport answers the thread that is in it; doGet finishes
Respond(t, env) ==
    /\ pc[t] = "transport"
    /\ EventPossible(build, env, FALSE)
    /\ LET k == tkey[t].key
           remoteResponse == ImpldoGet(build, env, FALSE, s_simResponseCode)
           a == AfterTransport(bin, now, TileURL(k), tpending[t], remoteResponse)
       IN /\ bin' = a.bin
          /\ tres' = [tres EXCEPT ![t] = ReturnLocal(build.nrvo, a.response)]
          /\ responded' = responded \cup {k}
    /\ pc' = [pc EXCEPT ![t] = "got"]
    /\ tpending' = [tpending EXCEPT ![t] = NoLookup]
    /\ UNCHANGED <<build, dataVars, procVars, now, call, tcall, held, tkey, ncalls, late>>

\* the thread turns to its next tile
Again(t) ==
    /\ pc[t] = "done"
    /\ pc' = [pc EXCEPT ![t] = "idle"]
    /\ tkey' = [tkey EXCEPT ![t] = NoRequest]
    /\ tres' = [tres EXCEPT ![t] = HTTPResponse(0)]
    /\ UNCHANGED <<build, dataVars, procVars, clientVars, tcall, held, tpending,
                   ncalls, responded, late>>

\* Gate::unlock(key): the thread leaves with its result
Leave(t) ==
    /\ pc[t] = "got"
    /\ held' = held \ {tkey[t].key}
    /\ pc' = [pc EXCEPT ![t] = "done"]
    /\ UNCHANGED <<build, dataVars, procVars, clientVars, tcall, tkey, tres, tpending,
                   ncalls, responded, late>>

----------------------------------------------------------------------------
(* Specifications *)

\* backend: the implementation the factory creates (cURL unless the library
\*   is built with OSGEARTH_USE_WININET_FOR_HTTP)
\* nrvo: whether the compiler elides the copy of a returned local
\* httpDisable: OSGEARTH_HTTP_DISABLE is set in the environment
\* layerSettings: the cache settings in the options of the tile pipeline
Build(backend, nrvo, httpDisable, layerSettings) ==
    [backend |-> backend, nrvo |-> nrvo, httpDisable |-> httpDisable,
     layerSettings |-> layerSettings]

----------------------------------------------------------------------------
(* The process-global settings and the threads that access them *)

\* the values a caller passes to setProxySettings; the value v has the host
\* name v and the port v
ProxyValues == {"a", "b"}

\* the factory objects: f0 is the one the library creates at load time
Factories == {"f0", "f1"}

Idle == [op |-> "idle"]

NoSeen == [kind |-> "none"]

\* the globals after static initialisation: no proxy settings, the factory
\* of the build; no accessor holds a lock, there is no lock
NoGlobals ==
    [s_proxySettings |-> [set |-> FALSE, host |-> "", port |-> ""],
     _implFactory    |-> "f0",
     deleted         |-> {},
     at              |-> [t \in Threads |-> Idle],
     seen            |-> NoSeen]

\* the global an accessor in progress works on
GlobalOf(p) ==
    IF p.op \in {"setProxySettings", "doGet"} THEN "s_proxySettings"
    ELSE IF p.op \in {"setImplementationFactory", "HTTPClient"}
         THEN "_implFactory" ELSE "none"

IsSetter(p) == p.op \in {"setProxySettings", "setImplementationFactory"}

\* HTTPClient::setProxySettings: the assignment copies the optional member
\* by member, with no lock; first the flag and the host name
SetProxySettingsBegin(t, v) ==
    /\ glob.at[t] = Idle
    /\ glob' = [glob EXCEPT
                   !.s_proxySettings = [@ EXCEPT !.set = TRUE, !.host = v],
                   !.at[t] = [op |-> "setProxySettings", value |-> v]]
    /\ UNCHANGED <<build, procVars, clientVars, tcall, gateVars, req, config,
                   probe, handle, gpu>>

\* then the port
SetProxySettingsEnd(t) ==
    /\ glob.at[t].op = "setProxySettings"
    /\ glob' = [glob EXCEPT
                   !.s_proxySettings = [@ EXCEPT !.port = glob.at[t].value],
                   !.at[t] = Idle]
    /\ UNCHANGED <<build, procVars, clientVars, tcall, gateVars, req, config,
                   probe, handle, gpu>>

\* CURLImplementation::doGet reads s_proxySettings with no lock: isSet() and
\* hostName() first
DoGetProxyBegin(t) ==
    /\ glob.at[t] = Idle
    /\ glob' = [glob EXCEPT
                   !.at[t] = [op |-> "doGet",
                              set |-> glob.s_proxySettings.set,
                              host |-> glob.s_proxySettings.host]]
    /\ UNCHANGED <<build, procVars, clientVars, tcall, gateVars, req, config,
                   probe, handle, gpu>>

\* then port()
DoGetProxyEnd(t) ==
    /\ glob.at[t].op = "doGet"
    /\ glob' = [glob EXCEPT
                   !.seen = IF glob.at[t].set
                            THEN [kind |-> "proxy", host |-> glob.at[t].host,
                                  port |-> glob.s_proxySettings.port]
                            ELSE [kind |-> "noproxy"],
                   !.at[t] = Idle]
    /\ UNCHANGED <<build, procVars, clientVars, tcall, gateVars, req, config,
                   probe, handle, gpu>>

\* HTTPClient::setImplementationFactory with a new factory object: deletes
\* the current factory
SetImplementationFactoryBegin(t, factory) ==
    /\ glob.at[t] = Idle
    /\ factory # glob._implFactory
    /\ factory \notin glob.deleted
    /\ \A u \in Threads : glob.at[u].op = "setImplementationFactory"
                            => glob.at[u].factory # factory
    /\ glob' = [glob EXCEPT
                   !.deleted = @ \cup {glob._implFactory},
                   !.at[t] = [op |-> "setImplementationFactory",
                              factory |-> factory]]
    /\ UNCHANGED <<build, procVars, clientVars, tcall, gateVars, req, config,
                   probe, handle, gpu>>

\* then stores the new pointer
SetImplementationFactoryEnd(t) ==
    /\ glob.at[t].op = "setImplementationFactory"
    /\ glob' = [glob EXCEPT !._implFactory = glob.at[t].factory,
                            !.at[t] = Idle]
    /\ UNCHANGED <<build, procVars, clientVars, tcall, gateVars, req, config,
                   probe, handle, gpu>>

\* HTTPClient::HTTPClient: tests the pointer
HTTPClientBegin(t) ==
    /\ glob.at[t] = Idle
    /\ glob' = [glob EXCEPT !.at[t] = [op |-> "HTTPClient",
                                       factory |-> glob._implFactory]]
    /\ UNCHANGED <<build, procVars, clientVars, tcall, gateVars, req, config,
                   probe, handle, gpu>>

\* then calls create() on the object it points to: the pointer it tested
\* or the one the global holds by now
HTTPClientEnd(t) ==
    /\ glob.at[t].op = "HTTPClient"
    /\ \E f \in {glob.at[t].factory, glob._implFactory} :
          glob' = [glob EXCEPT
                      !.seen = [kind |-> "create", factory |-> f,
                                deleted |-> f \in glob.deleted],
                      !.at[t] = Idle]
    /\ UNCHANGED <<build, procVars, clientVars, tcall, gateVars, req, config,
                   probe, handle, gpu>>

----------------------------------------------------------------------------
(* GPUJob and the GPU job arena *)

\* the jobs dispatched in one run
MaxJobs == 3

\* the functions a caller dispatches, each named by the value it returns
Functions == {"r1", "r2"}

Unresolved == "none"

\* the arena of the process before any dispatch: an empty queue
NoArena == [_queue |-> <<>>, jobs |-> <<>>]

\* Promise::isAbandoned: no future of the promise is held any more
isAbandoned(job) == ~job.held

\* GPUJob::dispatch: the promise, the future handed to the caller and the
\* function captured by the delegate
Job(function) ==
    [function |-> function, held |-> TRUE, invoked |-> 0,
     resolved |-> FALSE, result |-> Unresolved, ran |-> FALSE,
     heldAtRun |-> FALSE]

\* the delegate of GPUJob::dispatch, run by the arena
Delegate_NoCheck(job) ==
    [job EXCEPT !.invoked = @ + 1, !.resolved = TRUE,
                !.result = job.function]

Delegate(job) ==
    IF ~isAbandoned(job)
    THEN [job EXCEPT !.invoked = @ + 1, !.resolved = TRUE,
                     !.result = job.function]
    ELSE job

\* GPUJobArena::operator(): runs the first k delegates of the queue in
\* order and removes them
RECURSIVE RunJobs(_, _)
RunJobs(g, k) ==
    IF k = 0 \/ g._queue = <<>> THEN g
    ELSE LET j == Head(g._queue)
             before == g.jobs[j]
         IN RunJobs([_queue |-> Tail(g._queue),
                     jobs |-> [g.jobs EXCEPT
                                 ![j] = [Delegate(before) EXCEPT
                                           !.ran = TRUE,
                                           !.heldAtRun = before.held]]],
                    k - 1)

\* GPUJob::dispatch
Dispatch(function) ==
    /\ Len(gpu.jobs) < MaxJobs
    /\ gpu' = [_queue |-> Append(gpu._queue, Len(gpu.jobs) + 1),
               jobs |-> Append(gpu.jobs, Job(function))]
    /\ UNCHANGED <<build, procVars, clientVars, tcall, gateVars, req, config,
                   probe, handle, glob>>

\* the caller lets the future of job j go out of scope
DropFuture(j) ==
    /\ j \in DOMAIN gpu.jobs
    /\ gpu.jobs[j].held
    /\ gpu' = [gpu EXCEPT !.jobs[j].held = FALSE]
    /\ UNCHANGED <<build, procVars, clientVars, tcall, gateVars, req, config,
                   probe, handle, glob>>

\* one frame of the render thread: the time slice lets k jobs run
ArenaFrame(k) ==
    /\ k \in 1..Len(gpu._queue)
    /\ gpu' = RunJobs(gpu, k)
    /\ UNCHANGED <<build, procVars, clientVars, tcall, gateVars, req, config,
                   probe, handle, glob>>

----------------------------------------------------------------------------
(* decodeMultipartStream and its caller in CURLImplementation::doGet *)

\* A stream is a sequence of bytes; a byte is a one-character string, except
\* that a header name or value without ':' , ' ' and line break is written
\* as one element.

MaxParts  == 2     \* sub-parts of a multipart body
MaxStream == 4     \* bytes a part grows to once the input has ended

LF == "\n"

Wcs == <<"w", "c", "s">>

\* the boundaries a server declares in the Content-Type of its response
Boundaries == {Wcs, <<"a", "b">>}

\* the sub-parts a server sends
ContentType(v) == <<"Content-Type", ":", " ", v>>

\* lineBreak: whether a line break follows the body, before the boundary
SubParts ==
    {[headerLines |-> <<ContentType("image/tiff")>>, body |-> <<"x", "y">>,
      lineBreak |-> TRUE],
     [headerLines |-> <<ContentType("text/plain")>>, body |-> <<"h", "i">>,
      lineBreak |-> TRUE],
     [headerLines |-> <<>>, body |-> <<"-">>, lineBreak |-> TRUE],
     [headerLines |-> <<>>, body |-> <<"x", "-">>, lineBreak |-> FALSE]}

SubPartLists == UNION {[1..n -> SubParts] : n \in 0..MaxParts}

RECURSIVE Lines(_)
Lines(ls) == IF ls = <<>> THEN <<>> ELSE Head(ls) \o <<LF>> \o Lines(Tail(ls))

\* the body a server sends for a list of sub-parts and a boundary
RECURSIVE RenderSubParts(_, _)
RenderSubParts(boundary, ps) ==
    IF ps = <<>> THEN <<>>
    ELSE <<"-", "-">> \o boundary \o <<LF>>
         \o Lines(Head(ps).headerLines) \o <<LF>>
         \o Head(ps).body \o (IF Head(ps).lineBreak THEN <<LF>> ELSE <<>>)
         \o RenderSubParts(boundary, Tail(ps))

WellFormed(boundary, ps) ==
    RenderSubParts(boundary, ps) \o <<"-", "-">> \o boundary \o <<"-", "-">>

\* std::stringstream: the bytes, the read position and the state flags
Stream(data) == [data |-> data, pos |-> 0, eof |-> FALSE, fail |-> FALSE]

good(st) == ~st.eof /\ ~st.fail

\* istream::read of n bytes: nothing when the stream is not good; eofbit and
\* failbit when fewer than n bytes are left
read(st, n) ==
    IF ~good(st) THEN [st |-> [st EXCEPT !.fail = TRUE], got |-> <<>>]
    ELSE LET last == IF st.pos + n <= Len(st.data) THEN st.pos + n
                     ELSE Len(st.data)
             short == st.pos + n > Len(st.data)
         IN [st  |-> [st EXCEPT !.pos = last, !.eof = short, !.fail = short],
             got |-> SubSeq(st.data, st.pos + 1, last)]

\* std::getline: leaves the line as it is when the stream is not good;
\* otherwise clears it and extracts up to the line break, which it consumes
getline(st, line) ==
    IF ~good(st) THEN [st |-> [st EXCEPT !.fail = TRUE], line |-> line]
    ELSE LET breaks == {i \in (st.pos + 1)..Len(st.data) : st.data[i] = LF}
         IN IF breaks # {}
            THEN LET i == CHOOSE k \in breaks : \A m \in breaks : k <= m
                 IN [st   |-> [st EXCEPT !.pos = i],
                     line |-> SubSeq(st.data, st.pos + 1, i - 1)]
            ELSE [st   |-> [st EXCEPT !.pos = Len(st.data), !.eof = TRUE,
                                      !.fail = (st.pos = Len(st.data))],
                  line |-> SubSeq(st.data, st.pos + 1, Len(st.data))]

\* StringTokenizer with the delimiter ':' : the tokens between the
\* delimiters, trimmed
RECURSIVE trimToken(_)
trimToken(tok) ==
    IF tok = <<>> THEN tok
    ELSE IF Head(tok) = " " THEN trimToken(Tail(tok))
    ELSE IF tok[Len(tok)] = " " THEN trimToken(SubSeq(tok, 1, Len(tok) - 1))
    ELSE tok

RECURSIVE tokenize(_)
tokenize(line) ==
    LET colons == {i \in 1..Len(line) : line[i] = ":"}
    IN IF colons = {} THEN (IF trimToken(line) = <<>> THEN <<>>
                            ELSE <<trimToken(line)>>)
       ELSE LET i == CHOOSE k \in colons : \A m \in colons : k <= m
                first == trimToken(SubSeq(line, 1, i - 1))
            IN (IF first = <<>> THEN <<>> ELSE <<first>>)
               \o tokenize(SubSeq(line, i + 1, Len(line)))

\* HTTPResponse::Part as the decoder fills it
NewPart == [headers |-> {}, stream |-> <<>>, size |-> 0]

\* next_part->_headers[name] = value
setHeader(part, name, v) ==
    [part EXCEPT !.headers = {h \in @ : h.name # name}
                             \cup {[name |-> name, value |-> v]}]

\* the argument of decodeMultipartStream at its one call site
CallSiteBoundary(declared) == Wcs

\* CURLImplementation::doGet for a response whose MIME type starts with
\* "multipart": calls decodeMultipartStream, which first reads as many
\* bytes as "--" + boundary has and compares them with it. When the stream
\* is shorter, the rest of tempbuf is uninitialized.
DoGetMultipart(declared, ps, cut) ==
    /\ probe.op = "none"
    /\ cut \in 0..Len(WellFormed(declared, ps))
    /\ LET whole == WellFormed(declared, ps)
           bstr  == <<"-", "-">> \o CallSiteBoundary(declared)
           r     == read(Stream(SubSeq(whole, 1, cut)), Len(bstr))
           d0    == [op |-> "decodeMultipartStream",
                     declared |-> declared, sent |-> ps,
                     complete |-> (cut = Len(whole)),
                     bstr |-> bstr, input |-> r.st, line |-> r.got,
                     output |-> <<>>, next_part |-> NewPart,
                     bstr_ptr |-> 0, b |-> "?",
                     at |-> "boundary", ret |-> FALSE]
       IN \E garbageMatches \in BOOLEAN :
            LET same == IF Len(r.got) = Len(bstr) THEN r.got = bstr
                        ELSE /\ r.got = SubSeq(bstr, 1, Len(r.got))
                             /\ garbageMatches
            IN probe' = IF same THEN [d0 EXCEPT !.line = bstr]
                        ELSE [d0 EXCEPT !.at = "returned", !.ret = FALSE]
    /\ UNCHANGED <<build, procVars, clientVars, tcall, gateVars, req, config,
                   handle, glob, gpu>>

\* the head of the loop: a new part, and the rest of the boundary line
FinishBoundary ==
    /\ probe.op = "decodeMultipartStream" /\ probe.at = "boundary"
    /\ LET g == getline(probe.input, probe.line)
       IN probe' = IF g.line = <<"-", "-">>
                   THEN [probe EXCEPT !.input = g.st, !.line = g.line,
                                      !.next_part = NewPart,
                                      !.at = "returned", !.ret = TRUE]
                   ELSE [probe EXCEPT !.input = g.st, !.line = <<" ">>,
                                      !.next_part = NewPart,
                                      !.at = "headers"]
    /\ UNCHANGED <<build, procVars, clientVars, tcall, gateVars, req, config,
                   handle, glob, gpu>>

\* one turn of the header loop; the loop ends with an empty line
ReadHeader ==
    /\ probe.op = "decodeMultipartStream" /\ probe.at = "headers"
    /\ LET g == getline(probe.input, probe.line)
           tokens == tokenize(g.line)
       IN probe' =
            IF g.line = <<"-", "-">>
            THEN [probe EXCEPT !.input = g.st, !.line = g.line,
                               !.at = "returned", !.ret = TRUE]
            ELSE [probe EXCEPT
                    !.input = g.st, !.line = g.line,
                    !.next_part = IF Len(tokens) >= 2
                                  THEN setHeader(@, tokens[1], tokens[2])
                                  ELSE @,
                    !.bstr_ptr = 0,
                    !.at = IF Len(g.line) > 0 THEN "headers" ELSE "data"]
    /\ UNCHANGED <<build, procVars, clientVars, tcall, gateVars, req, config,
                   handle, glob, gpu>>

\* one turn of the data loop: reads a byte into b and compares it with the
\* next byte of the boundary. When the read fails b is not assigned: it
\* holds what the place held before, or anything.
ReadData ==
    /\ probe.op = "decodeMultipartStream" /\ probe.at = "data"
    /\ Len(probe.next_part.stream) + probe.bstr_ptr + 1 <= MaxStream
          \/ good(probe.input)
    /\ LET r == read(probe.input, 1)
       IN \E b \in (IF r.got # <<>> THEN {r.got[1]} ELSE {probe.b, "?"}) :
            probe' =
              IF b = probe.bstr[probe.bstr_ptr + 1]
              THEN IF probe.bstr_ptr + 1 < Len(probe.bstr)
                   THEN [probe EXCEPT !.input = r.st, !.b = b,
                                      !.bstr_ptr = @ + 1]
                   ELSE [probe EXCEPT !.input = r.st, !.b = b,
                                      !.bstr_ptr = @ + 1,
                                      !.output = Append(@, probe.next_part),
                                      !.at = "boundary"]
              ELSE [probe EXCEPT
                      !.input = r.st, !.b = b,
                      !.next_part =
                          [@ EXCEPT
                             !.stream = @ \o SubSeq(probe.bstr, 1,
                                                    probe.bstr_ptr)
                                          \o <<b>>,
                             !.size = @ + probe.bstr_ptr + 1],
                      !.bstr_ptr = 0]
    /\ UNCHANGED <<build, procVars, clientVars, tcall, gateVars, req, config,
                   handle, glob, gpu>>

InitShared ==
    /\ initialized = FALSE
    /\ s_simResponseCode = -1
    /\ now = 0
    /\ bin = [u \in URLs |-> NoEntry]
    /\ call = NoCall
    /\ tcall = NoTCall
    /\ held = {}
    /\ pc = [t \in Threads |-> "idle"]
    /\ tkey = [t \in Threads |-> NoRequest]
    /\ tres = [t \in Threads |-> HTTPResponse(0)]
    /\ tpending = [t \in Threads |-> NoLookup]
    /\ ncalls = [k \in TileKeys |-> 0]
    /\ responded = {}
    /\ late = {}
    /\ req = HTTPRequest(<<"h">>)
    /\ probe = NoProbe
    /\ handle = NoHandle
    /\ glob = NoGlobals
    /\ gpu = NoArena

InitCommon ==
    /\ InitShared
    /\ config = ConfigState(Config("j", <<>>))

\* doGet on the client of one thread
Init ==
    /\ build \in {Build("curl", n, FALSE, DefaultSettings) : n \in BOOLEAN}
    /\ InitCommon

Next ==
    \/ \E url \in URLs, cs \in Settings, env \in ClientEnvs :
           ClientGet(url, cs, env, env.event = "cancel")
    \/ Tick

Spec == Init /\ [][Next]_vars

\* typed reads on the client of one thread
NextRead ==
    \/ \E kind \in Kinds, url \in ReadURLs, cs \in ReadSettings, env \in ReadEnvs,
          progress \in BOOLEAN :
           ClientRead(kind, url, cs, env, progress)
    \/ Tick

SpecRead == Init /\ [][NextRead]_vars

\* GETs on the transport backend
InitTransport ==
    /\ build \in {Build(b, n, d, DefaultSettings) :
                     b \in {"curl", "wininet"}, n \in BOOLEAN, d \in BOOLEAN}
    /\ InitCommon

NextTransport ==
    \/ Initialize
    \/ \E env \in TransportEnvs, progress \in BOOLEAN : TransportGet(env, progress)

SpecTransport == InitTransport /\ [][NextTransport]_vars

\* pipeline threads at the keygate
InitGate ==
    /\ build \in {Build("curl", n, FALSE, cs) : n \in BOOLEAN, cs \in GateSettings}
    /\ InitCommon

NextGate ==
    \/ \E t \in Threads, k \in TileKeys : Arrive(t, k)
    \/ \E t \in Threads : Enter(t)
    \/ \E t \in Threads, env \in GateEnvs : Respond(t, env)
    \/ \E t \in Threads : Leave(t)
    \/ Tick

SpecGate == InitGate /\ [][NextGate]_vars

\* threads that fetch tile after tile; a thread that can go on does, and a
\* thread that the gate can let in again and again is let in
NextGateLive ==
    \/ \E t \in Threads, k \in TileKeys : Arrive(t, k)
    \/ \E t \in Threads : Enter(t)
    \/ \E t \in Threads, env \in GateEnvs : Respond(t, env)
    \/ \E t \in Threads : Leave(t)
    \/ \E t \in Threads : Again(t)

\* a layer without a cache
InitGateLive ==
    /\ build = Build("curl", TRUE, FALSE, DefaultSettings)
    /\ InitCommon

SpecGateLive ==
    /\ InitGateLive
    /\ [][NextGateLive]_vars
    /\ \A t \in Threads :
          /\ SF_vars(Enter(t))
          /\ WF_vars(\E env \in GateEnvs : Respond(t, env))
          /\ WF_vars(Leave(t))

\* callers of one HTTPRequest
NextRequest ==
    \/ \E url \in RequestURLs : RequestNew(url)
    \/ \E i \in 1..Len(ParamNames), v \in ParamValues :
           RequestAddParameter(ParamNames[i], v)
    \/ RequestGetURL

SpecRequest == Init /\ [][NextRequest]_vars

\* callers of one Config
InitConfig ==
    /\ build = Build("curl", TRUE, FALSE, DefaultSettings)
    /\ InitShared
    /\ config \in {ConfigState(Config(k, v)) : k \in {"j", "K"}, v \in {<<>>, <<"x">>}}

NextConfig ==
    \/ \E key \in ConfigKeys, v \in ConfigValues : ConfigAdd(key, v)
    \/ \E key \in ConfigKeys, v \in ConfigValues : ConfigSet(key, v)
    \/ \E key \in ConfigKeys : ConfigGet(key)

SpecConfig == InitConfig /\ [][NextConfig]_vars

\* callers that store and read possible percentages
NextPercentage ==
    \/ \E key \in ConfigKeys, v \in ConfigValues : ConfigAdd(key, v)
    \/ \E key \in ConfigKeys, opt \in Optionals,
          is_percentage \in {"unset", "true", "false"} :
           ConfigSetPercentage(key, opt, is_percentage)
    \/ \E key \in ConfigKeys : ConfigGetPercentage(key)

SpecPercentage == InitConfig /\ [][NextPercentage]_vars


\* callers of the functions of HTTPResponse
NextProbe ==
    \/ \E code \in Codes : ProbeCategory(code)
    \/ \E env \in TransportEnvs, progress \in BOOLEAN : ProbeCopy(env, progress)

SpecProbe == Init /\ [][NextProbe]_vars

\* GETs on the curl handle of one client
NextHandle ==
    \/ \E handler \in ConfigHandlers : SetConfigHandler(handler)
    \/ \E px \in {q \in ProxySources : q.globalAuth = "" /\ q.envAuth = ""},
          details \in Details : HandleGet(px, details)

SpecHandle == Init /\ [][NextHandle]_vars

\* GETs with and without credentials, no proxy
NextCredentials ==
    \/ \E handler \in ConfigHandlers : SetConfigHandler(handler)
    \/ \E details \in Details : HandleGet(NoGet0.px, details)

SpecCredentials == Init /\ [][NextCredentials]_vars

\* GETs through proxies with and without credentials, configured in the
\* global settings and the environment
NextProxy ==
    \/ \E handler \in ConfigHandlers : SetConfigHandler(handler)
    \/ \E px \in {q \in ProxySources : ~q.optString.set /\ ~q.options.set} :
           HandleGet(px, NoDetails)

SpecProxy == Init /\ [][NextProxy]_vars

\* threads that set and read the process-global settings
NextGlobals ==
    \/ \E t \in Threads, v \in ProxyValues : SetProxySettingsBegin(t, v)
    \/ \E t \in Threads : SetProxySettingsEnd(t)
    \/ \E t \in Threads : DoGetProxyBegin(t)
    \/ \E t \in Threads : DoGetProxyEnd(t)
    \/ \E t \in Threads, factory \in Factories :
           SetImplementationFactoryBegin(t, factory)
    \/ \E t \in Threads : SetImplementationFactoryEnd(t)
    \/ \E t \in Threads : HTTPClientBegin(t)
    \/ \E t \in Threads : HTTPClientEnd(t)

SpecGlobals == Init /\ [][NextGlobals]_vars

\* callers of GPUJob::dispatch and the render thread
NextArena ==
    \/ \E function \in Functions : Dispatch(function)
    \/ \E j \in 1..MaxJobs : DropFuture(j)
    \/ \E k \in 1..MaxJobs : ArenaFrame(k)

SpecArena == Init /\ [][NextArena]_vars

\* GETs of multipart responses
DecodeStep == FinishBoundary \/ ReadHeader \/ ReadData

NextDecode ==
    \/ \E declared \in Boundaries, ps \in SubPartLists :
           \E cut \in 0..Len(WellFormed(declared, ps)) :
               DoGetMultipart(declared, ps, cut)
    \/ FinishBoundary
    \/ ReadHeader
    \/ ReadData

SpecDecode == Init /\ [][NextDecode]_vars

\* the decoder runs on when it can
SpecDecodeLive == SpecDecode /\ WF_vars(DecodeStep)

----------------------------------------------------------------------------
(* Properties *)

Did(op) == \E i \in 1..Len(call.ops) : call.ops[i] = op

\* the policy doGet uses for the last call
CallPolicy == IF call.cs.present THEN call.cs ELSE DefaultSettings

\* the bin was enabled for the last call
CallBinOn == call.cs.present /\ isCacheEnabled(call.cs)

\* the entry of the last call's key was changed by the call
CallChangedEntry == bin[cacheKey(call.url)] # call.pre

\* the last call found an entry
CallHit == CallBinOn /\ call.pre.present

\* the string holds the directive no-cache somewhere
HoldsNoCache(str) ==
    \E i \in 0..(Len(str) - Len(StrNoCache)) :
        \A j \in 1..Len(StrNoCache) : str[i + j] = StrNoCache[j]

\* that entry carried the no-cache directive
CallHitNoCache == CallHit /\ HoldsNoCache(call.pre.meta.cacheControl)

\* that entry was expired under the policy of the call
CallHitAged == CallHit /\ isExpired(CallPolicy, call.pre.ts, call.time)

\* the last call returned the cached entry
ReturnedCached ==
    /\ call.response.fromCache
    /\ Len(call.response.parts) > 0
    /\ call.response.parts[1].stream = call.pre.data

\* C1: the bin is written only by a doGet whose transport response has code
\* 200 and is not canceled - never for a 304, an error, code 0, a canceled
\* response or a call answered from the cache.
C1_WriteOnlyForOK ==
    (call.kind = "doGet" /\ (Did("write") \/ CallChangedEntry))
        => /\ call.transport = 1
           /\ call.remote.code = 200
           /\ ~call.remote.canceled
           /\ ~call.response.fromCache

C1_Witness ==
    /\ call.kind = "doGet"
    /\ Did("write")
    /\ call.pre.present
    /\ bin[cacheKey(call.url)].data # call.pre.data

\* C2: with the bin enabled, a doGet that finds an entry that is not expired
\* under the policy and is not marked no-cache makes no transport call and
\* returns a response with fromCache set whose part 0 is the cached blob.
C2_FreshHitSkipsTransport ==
    (call.kind = "doGet" /\ CallHit /\ ~CallHitAged /\ ~CallHitNoCache)
        => /\ call.transport = 0
           /\ ReturnedCached

C2_Witness ==
    /\ call.kind = "doGet"
    /\ CallHit /\ ~CallHitAged /\ ~CallHitNoCache
    /\ call.cs.usage = "USAGE_READ_WRITE"
    /\ call.time > call.pre.ts

\* C3 as stated: every doGet that hits an entry marked no-cache calls the
\* transport.
C3_Original ==
    (call.kind = "doGet" /\ CallHitNoCache) => call.transport = 1

\* C3: every doGet that hits an entry whose cache-control contains no-cache
\* calls the transport, whatever the age of the entry, unless the usage of
\* the policy is CACHE_ONLY.
C3_NoCacheRevalidates ==
    (call.kind = "doGet" /\ CallHitNoCache /\ CallPolicy.usage # "USAGE_CACHE_ONLY")
        => call.transport = 1

C3_Witness ==
    /\ call.kind = "doGet"
    /\ CallHitNoCache /\ ~CallHitAged
    /\ call.pre.meta.cacheControl # StrNoCache
    /\ call.transport = 1

\* C4: under a CACHE_ONLY policy doGet never calls the transport: a hit
\* returns the cached response even when the entry is expired or marked
\* no-cache, a miss returns without a transport call.
C4_CacheOnlyNeverFetches ==
    (call.kind = "doGet" /\ call.cs.present /\ call.cs.usage = "USAGE_CACHE_ONLY")
        => /\ call.transport = 0
           /\ CallHit => ReturnedCached
           /\ ~CallHit => (call.response.code = 0 /\ call.response.parts = <<>>)

C4_Witness ==
    /\ call.kind = "doGet"
    /\ call.cs.present /\ call.cs.usage = "USAGE_CACHE_ONLY"
    /\ CallHitAged /\ CallHitNoCache
    /\ ReturnedCached

\* C5: when the transport answers 304 for an expired entry, doGet touches
\* the entry, does not write the bin and returns the cached response.
C5_NotModifiedTouches ==
    (call.kind = "doGet" /\ CallHit /\ call.transport = 1
       /\ call.remote.code = 304 /\ ~call.remote.canceled)
        => /\ Did("touch")
           /\ ~Did("write")
           /\ ReturnedCached

\* C6: after a doGet revalidated the expired entry of a key (the transport
\* answered 304), a later doGet for the key made before maxAge has passed
\* finds the entry fresh and makes no transport call (entry without no-cache).
C6_FreshAfterRevalidation ==
    [][(/\ call.kind = "doGet" /\ call'.kind = "doGet"
        /\ call' # call
        /\ CallHit /\ ~CallHitNoCache
        /\ call.transport = 1 /\ call.remote.code = 304
        /\ call'.url = call.url
        /\ call'.cs = call.cs /\ ~call.cs.forceExpire
        /\ call'.time - call.time <= call.cs.maxAge)
          => call'.transport = 0]_vars

\* the threads that asked for Tile Key k and have their response
Finished(k) == {t \in Threads : tkey[t].key = k /\ pc[t] \in {"got", "done"}}

\* all responses handed out for Tile Key k carry the same body
SameBodies(k) ==
    \A t1 \in Finished(k), t2 \in Finished(k) :
        getPartAsString0(tres[t1]) = getPartAsString0(tres[t2])

TransportAnswersReusable(k) ==
    \A t \in Finished(k) :
        ~tres[t].fromCache =>
            /\ isOK(tres[t])
            /\ ~HoldsNoCache(getHeadersAsConfig(tres[t]).cacheControl)

\* the layer caches with a policy under which nothing has expired yet
LayerCaches ==
    /\ build.layerSettings.present
    /\ build.layerSettings.hasCache
    /\ build.layerSettings.usage = "USAGE_READ_WRITE"
    /\ ~build.layerSettings.forceExpire
    /\ now <= build.layerSettings.maxAge

C8_ResponseShape ==
    tcall.made =>
        \/ /\ tcall.response.code = 0
           /\ (tcall.response.canceled \/ tcall.response.message # "")
        \/ (100 <= tcall.response.code /\ tcall.response.code <= 599)

\* C9: when the progress callback cancels the transfer, or the transfer or
\* connect timeout is exceeded, the backend's doGet returns code 0, canceled
\* and a message that is not empty.
C9_CanceledResponse ==
    (tcall.made /\ tcall.env.event \in {"cancel", "timeout"})
        => /\ tcall.response.code = 0
           /\ tcall.response.canceled
           /\ tcall.response.message # ""

\* C10: a typed read whose transfer is canceled returns the result code
\* CANCELED and leaves the bin as it was: nothing written, nothing touched.
C10_CanceledReadKeepsCache ==
    (call.kind \in Kinds /\ call.transport = 1 /\ call.remote.canceled)
        => /\ call.result.code = "RESULT_CANCELED"
           /\ ~CallChangedEntry
           /\ ~Did("write") /\ ~Did("touch")

C10_Witness ==
    /\ call.kind \in Kinds
    /\ call.transport = 1 /\ call.remote.canceled
    /\ call.event = "cancel"
    /\ CallHitAged
    /\ call.result.code = "RESULT_CANCELED"

\* C11: a doGet, alone or inside a typed read, calls the transport at most
\* once, whatever the transport answers - an error, a timeout, a canceled
\* transfer, a 304 or an OK response.
C11_NoInternalRetry ==
    call.kind # "none" => call.transport <= 1

C11_Witness ==
    /\ call.kind \in Kinds
    /\ call.transport = 1
    /\ ~isOK(call.remote)
    /\ isRecoverable(call.result.code)

\* C12: a typed read calls setRetryDelay and then cancel on the caller's
\* callback exactly when the response is not OK, the result code is
\* SERVER_ERROR, TIMEOUT or CANCELED and a callback was given; otherwise the
\* callback gets neither call.
C12_RetryDelayOnRecoverable ==
    call.kind \in Kinds =>
        LET calls == call.result.callback.calls
            due   == /\ ~isOK(call.response)
                     /\ call.result.code \in
                          {"RESULT_SERVER_ERROR", "RESULT_TIMEOUT", "RESULT_CANCELED"}
                     /\ call.progress
        IN /\ due => calls = <<"setRetryDelay", "cancel">>
           /\ ~due => calls = <<>>

C12_Witness ==
    /\ call.kind \in Kinds
    /\ call.progress
    /\ call.result.code = "RESULT_SERVER_ERROR"
    /\ call.result.callback.calls = <<"setRetryDelay", "cancel">>

\* the result code the priority list of C13 gives to a response
PriorityCode(response) ==
    IF response.canceled THEN "RESULT_CANCELED"
    ELSE IF response.code = 404 THEN "RESULT_NOT_FOUND"
    ELSE IF response.code = 304 THEN "RESULT_NOT_MODIFIED"
    ELSE IF 500 <= response.code /\ response.code <= 599 THEN "RESULT_SERVER_ERROR"
    ELSE "RESULT_UNKNOWN_ERROR"

C14_Unauthorized ==
    (call.kind \in Kinds /\ ~call.response.canceled
        /\ call.response.code \in {401, 403})
        => call.result.code = "RESULT_UNAUTHORIZED"

\* C15: a typed read whose transfer ran into the connect or transfer timeout
\* of the transport returns the result code TIMEOUT.
C15_TimeoutCode ==
    (call.kind \in Kinds /\ call.transport = 1 /\ call.event = "timeout")
        => call.result.code = "RESULT_TIMEOUT"

\* C16: the result of every typed read, whatever the outcome, carries
\* metadata with the URL of the request, the headers of the request, the
\* headers of the response and the code of the response.
C16_MetadataAlways ==
    call.kind \in Kinds =>
        /\ call.result.metadata.URI = call.url
        /\ call.result.metadata.requestHeaders
        /\ call.result.metadata.headers = getHeadersAsConfig(call.response)
        /\ call.result.metadata.responseCode = call.response.code

\* C17: in each of the four typed reads the from-cache flag of the result
\* equals the from-cache flag of the response doGet returned.
C17_FromCacheFlag ==
    call.kind \in Kinds =>
        call.result.fromCache = call.response.fromCache

\* the reader the order of C18 selects, told from the registry of the call
ReaderByOrder ==
    LET reg == call.result.registry
        ext == removeQueryParams(URLString(call.url))
        n   == Len(ext)
        isPng == n >= 4 /\ SubSeq(ext, n - 3, n) = <<".">> \o ExtPng
    IN IF reg.sniff /\ Len(call.response.parts) > 0 THEN "bySignature"
       ELSE IF isPng /\ ExtPng \in reg.ext THEN "byExtension"
       ELSE IF reg.mime /\ call.response.mimeType # "" THEN "byMimeType"
       ELSE "none"

\* C18: for an OK response readImage, readNode and readObject look for the
\* decoder by the content of part 0, then by the extension of the URL
\* without its query string, then by the MIME type; a later look-up is made
\* only when the earlier ones found nothing, and when none finds a decoder
\* the read returns NO_READER and invokes no decoder.
C18_ReaderOrder ==
    (call.kind \in {"readImage", "readNode", "readObject"} /\ isOK(call.response))
        => LET r == call.result IN
           /\ r.reader = ReaderByOrder
           /\ r.reader = "bySignature" => r.lookups = <<"signature">>
           /\ r.reader = "byExtension" => r.lookups = <<"signature", "extension">>
           /\ r.reader \in {"byMimeType", "none"}
                => r.lookups = <<"signature", "extension", "mimeType">>
           /\ r.reader = "none"
                => (r.code = "RESULT_NO_READER" /\ ~r.decoderInvoked)

C18_Witness ==
    /\ call.kind \in {"readImage", "readNode", "readObject"}
    /\ isOK(call.response)
    /\ ~call.result.registry.sniff
    /\ call.result.registry.ext = {ExtPng} /\ call.result.registry.mime
    /\ call.result.reader = "byExtension"
    /\ call.result.lookups = <<"signature", "extension">>

\* the k=v pairs a rendered URL lists from position i on, in their order
RECURSIVE PairsFrom(_, _)
PairsFrom(text, i) ==
    IF i > Len(text) THEN <<>>
    ELSE IF text[i] = "=" /\ 1 < i /\ i < Len(text)
    THEN <<<<text[i - 1], text[i + 1]>>>> \o PairsFrom(text, i + 1)
    ELSE PairsFrom(text, i + 1)

\* the parameters of a request in the order of their insertion: every name
\* at the place of its first addParameter, with the value of its last
RECURSIVE InsertionOrder(_, _)
InsertionOrder(h, i) ==
    IF i > Len(h) THEN <<>>
    ELSE IF \E j \in 1..(i - 1) : h[j][1] = h[i][1]
    THEN InsertionOrder(h, i + 1)
    ELSE LET last == CHOOSE j \in i..Len(h) :
                        /\ h[j][1] = h[i][1]
                        /\ \A l \in (j + 1)..Len(h) : h[l][1] # h[i][1]
         IN <<<<h[i][1], h[last][2]>>>> \o InsertionOrder(h, i + 1)

\* C19: whatever the base URL U and the addParameter calls, getURL returns a
\* string that begins with U and lists the parameters as k=v pairs in the
\* order of their insertion.
C19_ParametersInInsertionOrder ==
    req.rendered =>
        /\ Len(req.text) >= Len(req.given)
        /\ SubSeq(req.text, 1, Len(req.given)) = req.given
        /\ PairsFrom(req.text, Len(req.given) + 1) = InsertionOrder(req.history, 1)

\* C20: after set(k, v) a following get(k, out) returns true and leaves out
\* equal to v, whatever children the Config held before.
C20_SetGetRoundTrip ==
    (config.lastSet.made /\ config.lastGet.made
        /\ config.lastGet.key = config.lastSet.key)
        => /\ config.lastGet.returned
           /\ config.lastGet.output = config.lastSet.value

\* C30: getCodeCategory gives unknown to the codes below 100, informational
\* to 100-199, success to 200-299, redirection to 300-399, client error to
\* 400-499, and server error to 500-599 and to no other code.
C30_CodeCategories ==
    probe.op = "getCodeCategory" =>
        LET c == probe.code IN
        /\ probe.category = 0   <=> c < 100
        /\ probe.category = 100 <=> (100 <= c /\ c <= 199)
        /\ probe.category = 200 <=> (200 <= c /\ c <= 299)
        /\ probe.category = 300 <=> (300 <= c /\ c <= 399)
        /\ probe.category = 400 <=> (400 <= c /\ c <= 499)
        /\ probe.category = 500 <=> (500 <= c /\ c <= 599)

\* C23: when OSGEARTH_HTTP_DISABLE was set as the client was initialized,
\* every GET made on the transport afterwards reports the code 500.
C23_DisabledAlways500 ==
    (build.httpDisable /\ initialized /\ tcall.made)
        => tcall.response.code = 500

\* the events of the last GET on the handle that have the given name
EventsNamed(name) ==
    {i \in 1..Len(handle.last.events) : handle.last.events[i] = name}

\* C21: a proxy configured in the options of the request is used in
\* preference to the global proxy settings, and the global settings in
\* preference to the environment variables.
C21_ProxyPrecedence ==
    handle.last.made =>
        LET px == handle.last.px
            used == <<handle.last.proxy.host, handle.last.proxy.port>>
            explicit == px.options.set \/ px.optString.set
        IN /\ explicit =>
                \/ (px.options.set /\ used = <<px.options.host, px.options.port>>)
                \/ (px.optString.set /\ used = <<px.optString.host, px.optString.port>>)
           /\ (~explicit /\ px.global.set)
                => used = <<px.global.host, px.global.port>>
           /\ (~explicit /\ ~px.global.set /\ px.env.set)
                => used[1] = px.env.host

\* C22: a GET sets the user:password option of the handle only when its
\* credential differs from the credential of the GET before it on the
\* handle.
C22_CredentialOnlyWhenChanged ==
    handle.last.made =>
        (EventsNamed("CURLOPT_USERPWD") # {}
            => handle.last.details.userpwd # handle.last.previous)

\* C24: the backend of a client is initialized once, before its first GET;
\* the installed handler's onGet is called once, right before the transfer
\* of every GET; and the handler whose onGet is called has had its
\* onInitialize called for the handle.
C24_HandlerLifecycle ==
    handle.last.made =>
        /\ handle.initialized /\ handle.initializations = 1
        /\ handle.last.handler # "none" =>
             /\ Cardinality(EventsNamed("onGet")) = 1
             /\ \E i \in EventsNamed("onGet") :
                    handle.last.events[i + 1] = "curl_easy_perform"
             /\ handle.last.handler \in handle.onInitialize

\* C25: accesses to one process-global setting are mutually exclusive: while
\* a thread is inside a setter no other thread is inside an accessor of the
\* same global, so no reader sees a half-written proxy value or calls a
\* deleted factory.
C25_GlobalsExclusive ==
    /\ \A t, u \in Threads :
          (t # u /\ IsSetter(glob.at[t]))
             => GlobalOf(glob.at[u]) # GlobalOf(glob.at[t])
    /\ glob.seen.kind = "proxy" => glob.seen.host = glob.seen.port
    /\ glob.seen.kind = "create" => ~glob.seen.deleted

\* C26: a job whose future was dropped before the arena ran it is never
\* invoked and its promise never resolved; a job whose future was held when
\* the arena ran it was invoked exactly once and resolved to the value its
\* function returned.
C26_AbandonedJobsSkipped ==
    \A j \in DOMAIN gpu.jobs :
        LET job == gpu.jobs[j] IN
        IF job.ran /\ job.heldAtRun
        THEN job.invoked = 1 /\ job.resolved /\ job.result = job.function
        ELSE job.invoked = 0 /\ ~job.resolved /\ job.result = Unresolved

C26_Witness ==
    \E j, k \in DOMAIN gpu.jobs :
        /\ gpu.jobs[j].ran /\ ~gpu.jobs[j].heldAtRun
        /\ gpu.jobs[k].ran /\ gpu.jobs[k].heldAtRun /\ gpu.jobs[k].resolved
        /\ gpu._queue = <<>>

\* the headers a sub-part was sent with
SentHeaders(p) ==
    {[name |-> <<p.headerLines[i][1]>>, value |-> <<p.headerLines[i][4]>>] :
        i \in 1..Len(p.headerLines)}

DecodeReturned == probe.op = "decodeMultipartStream" /\ probe.at = "returned"

\* C27: for a well-formed stream of n sub-parts, delimited by the boundary
\* the decoder is called with, the decoder returns true with exactly n
\* parts in stream order, each with its own headers and with a stream and
\* a size that are exactly the body bytes of the sub-part.
C27_WellFormedParts ==
    (DecodeReturned /\ probe.complete
       /\ probe.bstr = <<"-", "-">> \o probe.declared)
    => /\ probe.ret
       /\ Len(probe.output) = Len(probe.sent)
       /\ \A i \in 1..Len(probe.sent) :
            /\ probe.output[i].headers = SentHeaders(probe.sent[i])
            /\ probe.output[i].stream = probe.sent[i].body
            /\ probe.output[i].size = Len(probe.sent[i].body)

\* C28: a complete multipart body is split at the boundary its response
\* declares, whatever that boundary is: the decoder accepts it and yields
\* one part for each sub-part.
C28_SplitAtDeclaredBoundary ==
    (DecodeReturned /\ probe.complete)
    => /\ probe.ret
       /\ Len(probe.output) = Len(probe.sent)
       /\ \A i \in 1..Len(probe.sent) :
            probe.output[i].headers = SentHeaders(probe.sent[i])

\* a stream is malformed for the decoder when it does not start with "--"
\* and the boundary of the call, or ends before the terminal marker
MalformedStream ==
    \/ ~probe.complete
    \/ probe.bstr # <<"-", "-">> \o probe.declared

\* C29: every call of the decoder returns, and on a malformed stream it
\* returns false.
C29_TerminatesAndRejects ==
    /\ (probe.op = "decodeMultipartStream") ~> DecodeReturned
    /\ [](DecodeReturned /\ MalformedStream => ~probe.ret)

\* C31: a number stored with is_percentage = true is held as the child
\* value "<num>%" and read back as a percentage; stored with is_percentage
\* false or unset it is held without '%' and not read back as a percentage.
C31_PercentageRoundTrip ==
    (config.lastSet.made /\ config.lastSet.value.set)
    => LET text == child(config.c, config.lastSet.key).defaultValue
           num  == NumberString(config.lastSet.value.value)
           pct  == config.lastSet.is_percentage = "true"
       IN /\ text = IF pct THEN num \o <<"%">> ELSE num
          /\ (config.lastGet.made
                /\ keys_equal(config.lastGet.key, config.lastSet.key))
             => /\ config.lastGet.returned
                /\ (config.lastGet.is_percentage = "true") = pct

Fetching(t) == pc[t] \in {"transport", "got"}

C34_HandleCredentialState ==
    handle.last.made
    => /\ handle.curl.CURLOPT_USERPWD = handle.last.details.userpwd
       /\ handle.curl.CURLOPT_HTTPAUTH = handle.last.details.httpAuthentication
       /\ handle.previousPassword = handle.curl.CURLOPT_USERPWD
       /\ handle.previousHttpAuthentication = handle.curl.CURLOPT_HTTPAUTH

C34_Witness ==
    /\ handle.last.made
    /\ ~handle.last.details.present
    /\ handle.last.previous = "c1"
    /\ handle.curl.CURLOPT_USERPWD = ""

\* C37: after a GET the proxy address and the proxy credentials set on the
\* handle are those resolved for that GET; without a proxy, or with a proxy
\* without credentials, no proxy credentials are set.
C37_ProxyStateIsLatest ==
    handle.last.made
    => LET proxy == handle.last.proxy
           auth  == IF handle.last.px.envAuth # "" THEN handle.last.px.envAuth
                    ELSE handle.last.px.globalAuth
       IN /\ handle.curl.CURLOPT_PROXY
               = IF proxy.host # "" THEN <<proxy.host, proxy.port>> ELSE <<>>
          /\ handle.curl.CURLOPT_PROXYUSERPWD
               = IF proxy.host # "" THEN auth ELSE ""

\* C35: while the decoder reads the body of a sub-part, it has recognized
\* the boundary wherever the bytes it has read end with "--" and the
\* boundary, also when bytes that begin the boundary come right before it.
C35_BoundaryFoundAtEveryPosition ==
    (probe.op = "decodeMultipartStream" /\ probe.at = "data"
       /\ probe.input.pos >= Len(probe.bstr))
    => SubSeq(probe.input.data, probe.input.pos - Len(probe.bstr) + 1,
              probe.input.pos) # probe.bstr


\* the last call found an expired entry and the transport's response was
\* neither OK nor a 304
CallExpiredThenFailed ==
    /\ call.kind = "doGet" /\ CallHit /\ call.expired /\ call.transport = 1
    /\ ~isOK(call.remote) /\ call.remote.code # 304

\* C36: when doGet finds an expired entry and the transport's response is
\* neither OK nor not-modified, doGet returns the transport's response, and
\* the entry is neither written nor touched.
C36_FailedRevalidationReturnsRemote ==
    CallExpiredThenFailed
        => /\ call.response.code = call.remote.code
           /\ call.response.canceled = call.remote.canceled
           /\ call.response.parts = call.remote.parts
           /\ call.response.mimeType = call.remote.mimeType
           /\ ~call.response.fromCache
           /\ ~Did("write") /\ ~Did("touch")
           /\ ~CallChangedEntry

C36_Witness ==
    /\ CallExpiredThenFailed
    /\ call.remote.canceled
    /\ call.response.canceled
    /\ bin[cacheKey(call.url)] = call.pre


\* C38: a copy-constructed HTTPResponse equals the original in every field:
\* response code, parts, MIME type, canceled flag, from-cache flag, duration,
\* last-modified timestamp and message.
C38_CopyEqualsOriginal ==
    probe.op = "copy"
        => /\ probe.copy.code = probe.original.code
           /\ probe.copy.parts = probe.original.parts
           /\ probe.copy.mimeType = probe.original.mimeType
           /\ probe.copy.canceled = probe.original.canceled
           /\ probe.copy.fromCache = probe.original.fromCache
           /\ probe.copy.duration = probe.original.duration
           /\ probe.copy.lastModified = probe.original.lastModified
           /\ probe.copy.message = probe.original.message


\* C39: the header list the curl backend's doGet allocates for a GET is
\* released before doGet returns, on every return path: normal completion,
\* proxy connect error, cancellation and timeout.
C39_HeaderListReleased ==
    (tcall.made /\ build.backend = "curl" /\ tcall.slist.headers # <<>>)
        => tcall.slist.freed

====
